---- MODULE Spec2Model ----
(***************************************************************************)
(* A model of the Kbus transit backend (src/transport/views.py and         *)
(* src/transport/models.py): the fare rule, the route path distance, the   *)
(* fare quote and ticket booking handlers, and the live-location tracker.  *)
(*                                                                         *)
(* Representation                                                          *)
(*  - A text value (a form field, a stop name, an OTP) is a sequence of    *)
(*    one-character strings, so that strip(), upper(), int() and the OTP   *)
(*    pattern are computed on the characters.                              *)
(*  - A coordinate is an integer number of angular units; one unit is the  *)
(*    angle whose arc on the Earth sphere (radius 6,371,000 m) is one      *)
(*    metre, so 90 degrees is QuarterArc units and 180 degrees is HalfArc  *)
(*    units.  Positions the model stores lie on the great circle made of   *)
(*    the meridians 0 and +-180 degrees, where the haversine distance has  *)
(*    an exact closed form.                                                *)
(*  - A Decimal is a record [coef, exp] (value coef * 10^exp), so that     *)
(*    Decimal('10') and Decimal('10.00') are equal in value and different  *)
(*    in exponent, as in Python.                                           *)
(*  - An optional value (None or a value) is a sequence of length at most *)
(*    one: None is << >> and Some(x) is << x >>.  A form field that is     *)
(*    absent is the empty text: every handler reads a form field as        *)
(*    (request.POST.get(k) or ''), or through a helper that maps None and  *)
(*    '' to the same result.                                               *)
(***************************************************************************)
EXTENDS Integers, Sequences, FiniteSets, TLC

VARIABLES
    fareIn,     \* the argument handed to _fare_from_distance_m (fare specification)
    fareOut,    \* its outcome, or None before the call
    routes,     \* Route table: the set of route ids
    stops,      \* Stop table: sequence of rows, the row's id is its index
    buses,      \* Bus table: sequence of rows, the row's id is its index
    tickets,    \* Ticket table: sequence of rows
    live,       \* BusLiveLocation table: sequence of rows
    now,        \* the clock (timezone.now()), in tenths of a second
    last,       \* the last request served and its response
    trips,      \* BusTrip table: sequence of rows, the row's id is its index
    assignments, \* DriverBusAssignment table: the set of its rows
    users,      \* User table: sequence of rows, the row's id is its index
    procs       \* the requests in flight: what each has read and where it stands

vars == <<fareIn, fareOut, routes, stops, buses, tickets, live, now, last,
         trips, assignments, users, procs>>

None == <<>>
Some(x) == <<x>>
Get(o) == o[1]

(***************************************************************************)
(* Bounds of the model.                                                    *)
(***************************************************************************)
MaxHalfKm == 16      \* fare arguments range over 0 .. MaxHalfKm half kilometres
MaxStops == 6        \* rows of the Stop table
MaxTickets == 1      \* rows of the Ticket table
MaxClock == 2        \* the clock advances this many times
MaxBuses == 2           \* at most this many buses are registered
MaxTrips == 2           \* rows of the BusTrip table
MaxUsers == 2           \* rows of the User table

(***************************************************************************)
(* Text helpers.                                                           *)
(***************************************************************************)
Str1(a) == <<a>>
Str2(a, b) == <<a, b>>
Str5(a, b, c, d, e) == <<a, b, c, d, e>>

LowerToUpper == [c \in {"a", "b", "s", "x", "z"} |->
                    CASE c = "a" -> "A" [] c = "b" -> "B" [] c = "s" -> "S"
                      [] c = "x" -> "X" [] c = "z" -> "Z"]

\* str.upper() on the characters of the model's alphabet.
Upper(s) == [i \in 1..Len(s) |->
                IF s[i] \in DOMAIN LowerToUpper THEN LowerToUpper[s[i]] ELSE s[i]]

IsSpace(c) == c = " "

RECURSIVE LStrip(_)
LStrip(s) == IF s # <<>> /\ IsSpace(Head(s)) THEN LStrip(Tail(s)) ELSE s

RECURSIVE RStrip(_)
RStrip(s) == IF s # <<>> /\ IsSpace(s[Len(s)])
             THEN RStrip(SubSeq(s, 1, Len(s) - 1)) ELSE s

\* str.strip()
Strip(s) == RStrip(LStrip(s))

DigitVal == [c \in {"0", "1", "2", "3", "4", "5", "6", "7", "8", "9"} |->
                CASE c = "0" -> 0 [] c = "1" -> 1 [] c = "2" -> 2 [] c = "3" -> 3
                  [] c = "4" -> 4 [] c = "5" -> 5 [] c = "6" -> 6 [] c = "7" -> 7
                  [] c = "8" -> 8 [] c = "9" -> 9]

IsDigits(s) == s # <<>> /\ \A i \in 1..Len(s) : s[i] \in DOMAIN DigitVal

RECURSIVE DigitsValue(_)
DigitsValue(s) == IF s = <<>> THEN 0
                  ELSE 10 * DigitsValue(SubSeq(s, 1, Len(s) - 1)) + DigitVal[s[Len(s)]]

\* int(str): an optional sign and decimal digits, anything else raises (None).
ParseInt(s) ==
    IF s # <<>> /\ Head(s) \in {"+", "-"}
    THEN IF IsDigits(Tail(s))
         THEN Some((IF Head(s) = "-" THEN -1 ELSE 1) * DigitsValue(Tail(s)))
         ELSE None
    ELSE IF IsDigits(s) THEN Some(DigitsValue(s)) ELSE None

\* _to_int(value, min_value=...): None when value is missing, is no integer
\* or is below min_value.
_to_int(value, min_value) ==
    LET i == ParseInt(Strip(value))
    IN  IF i = None THEN None
        ELSE IF Get(i) < min_value THEN None ELSE i

UpperAlnum == {"A", "B", "S", "X", "Z", "0", "1", "2", "3", "4", "5", "6", "7", "8", "9"}

\* _OTP_RE.fullmatch: exactly five characters of [A-Z0-9].
OtpLen == 5
OtpFullMatch(s) == Len(s) = OtpLen /\ \A i \in 1..Len(s) : s[i] \in UpperAlnum

\* _normalize_bus_otp
_normalize_bus_otp(value) ==
    LET otp == Upper(Strip(value))
    IN  IF otp = <<>> THEN None
        ELSE IF ~OtpFullMatch(otp) THEN None
        ELSE Some(otp)

(***************************************************************************)
(* Geometry.                                                               *)
(***************************************************************************)
QuarterArc == 10007543     \* 90 degrees of arc, in metres (R * pi / 2)
HalfArc == 20015086        \* 180 degrees of arc, in metres (R * pi)

Abs(x) == IF x < 0 THEN -x ELSE x

\* distance_meters on the great circle of the meridians 0 and +-180: on one
\* meridian the haversine formula gives R * |dphi|; between a point of the
\* meridian 0 and one of the meridian 180 it gives R * (pi - |phi1 + phi2|)
\* (the way over the nearer pole).  Longitudes 180 and -180 are one meridian.
distance_meters(lat1, lon1, lat2, lon2) ==
    IF Abs(lon2 - lon1) \in {0, 2 * HalfArc}
    THEN Abs(lat2 - lat1)
    ELSE HalfArc - Abs(lat1 + lat2)

(***************************************************************************)
(* Decimals and the fare rule.                                             *)
(***************************************************************************)
Dec(coef, exp) == [coef |-> coef, exp |-> exp]

\* The value of a Decimal with exponent 0 or -2, in hundredths.
Hundredths(d) == IF d.exp = 0 THEN d.coef * 100 ELSE d.coef

\* A rounding that drops the started kilometre (ROUND_FLOOR).
CeilingDiv_Floor(num, den) == num \div den

\* Decimal.to_integral_value(rounding=ROUND_CEILING) of num/den, den > 0.
CeilingDiv(num, den) == -((-num) \div den)

\* A quantize that keeps the digits and moves the point.
Quantize2_Unscaled(units) == Dec(units, -2)

\* Decimal.quantize(Decimal('0.01')) of an integral Decimal.
Quantize2(units) == Dec(units * 100, -2)

BaseFare == 10             \* base_fare = Decimal('10')
BaseMm == 2500000          \* base_km = Decimal('2.5'), in millimetres
MmPerKm == 1000000         \* Decimal('1000') metres per kilometre, in millimetres

\* A float argument: a finite number (in millimetres), a NaN, an infinity,
\* or a value whose str() is no number.
Num(mm) == [kind |-> "num", mm |-> mm]
\* A distance in whole metres; one too long for a count of millimetres in
\* 32 bits is held in metres.
Metres(m) == IF m <= 2147483647 \div 1000 THEN Num(m * 1000)
             ELSE [kind |-> "metres", m |-> m]
NaN == [kind |-> "nan"]
PosInf == [kind |-> "inf"]
NegInf == [kind |-> "-inf"]
NotANumber == [kind |-> "text"]

Returned(d) == [raised |-> FALSE, value |-> d]
Raised(e) == [raised |-> TRUE, error |-> e]

\* _fare_from_distance_m.  Decimal(str(x)) raises (caught: the base fare) for
\* a text that is no number; a NaN passes the conversion and the division
\* and raises InvalidOperation in the comparison; +Infinity passes the
\* comparison and raises OverflowError in int(); -Infinity compares below.
_fare_from_distance_m(distance_m) ==
    CASE distance_m.kind = "text" -> Returned(Dec(BaseFare, 0))
      [] distance_m.kind = "nan" -> Raised("InvalidOperation")
      [] distance_m.kind = "inf" -> Raised("OverflowError")
      [] distance_m.kind = "-inf" -> Returned(Dec(BaseFare, 0))
      [] distance_m.kind = "num" ->
            IF distance_m.mm <= BaseMm
            THEN Returned(Dec(BaseFare, 0))
            ELSE LET extra_mm == distance_m.mm - BaseMm
                     extra_units == CeilingDiv(extra_mm, MmPerKm)
                 IN  Returned(Quantize2(BaseFare + extra_units))
      [] distance_m.kind = "metres" ->
            LET extra_m == distance_m.m - BaseMm \div 1000
                extra_units == CeilingDiv(extra_m, MmPerKm \div 1000)
            IN  Returned(Quantize2(BaseFare + extra_units))

(***************************************************************************)
(* The tables and the querysets the handlers read.                         *)
(***************************************************************************)
StopRow(route, name, order, latitude, longitude) ==
    [route |-> route, name |-> name, order |-> order,
     latitude |-> latitude, longitude |-> longitude]

\* setUp: operator_name='operator'
FixtureOperator == <<"o", "p", "e", "r", "a", "t", "o", "r">>

\* setUp: base_fare='10.00', in hundredths
FixtureBaseFare == 1000

BusRow(route, otp_code) ==
    [route |-> route, otp_code |-> otp_code, current_stop |-> None,
     operator_name |-> FixtureOperator, base_fare |-> FixtureBaseFare,
     trip_active |-> FALSE, trip_start_time |-> None]

\* _mk_route_with_stops: five stops on one meridian, 0.009 degrees of
\* latitude (1000.75 m) apart but S2 -> S3 (0.0036 degrees), in whole metres.
FixtureStops ==
    << StopRow(1, Str2("S", "0"), 0, 0, 0),
       StopRow(1, Str2("S", "1"), 1, 1001, 0),
       StopRow(1, Str2("S", "2"), 2, 2002, 0),
       StopRow(1, Str2("S", "3"), 3, 2402, 0),
       StopRow(1, Str2("S", "4"), 4, 3403, 0) >>

\* KbusSmokeTests.setUp: one bus on the route; generate_otp drew its code.
FixtureOtp == Str5("A", "B", "1", "2", "Z")
FixtureBuses == << BusRow(1, FixtureOtp) >>

StopIds == DOMAIN stops
BusIds == DOMAIN buses

\* Stop.objects.filter(route=route): the ids of the route's stops.
RouteStops(route) == {i \in StopIds : stops[i].route = route}

\* order_by('order', 'id'): whether row i comes before row j.
Before(i, j) ==
    \/ stops[i].order < stops[j].order
    \/ stops[i].order = stops[j].order /\ i < j

\* The place (from 1) of row i of S in S ordered by (order, id).
Rank(S, i) == Cardinality({j \in S : Before(j, i)}) + 1

\* list(qs.order_by('order', 'id')) for the rows S.
OrderedStops(S) == [k \in 1..Cardinality(S) |-> CHOOSE i \in S : Rank(S, i) = k]

\* qs.order_by('order', 'id').first()
FirstOrdered(S) == IF S = {} THEN None ELSE Some(CHOOSE i \in S : Rank(S, i) = 1)

\* qs.filter(id=id).first()
StopById(S, id) == IF id \in S THEN Some(id) ELSE None

\* qs.filter(name=name)
StopsNamed(S, name) == {i \in S : stops[i].name = name}

\* Bus.objects.filter(otp_code=otp).first(): an unordered first() orders by
\* primary key.
FirstBusByOtp(otp) ==
    LET B == {b \in BusIds : buses[b].otp_code = otp}
    IN  IF B = {} THEN None ELSE Some(CHOOSE b \in B : \A c \in B : b <= c)

StopDistance(a, b) ==
    distance_meters(stops[a].latitude, stops[a].longitude,
                    stops[b].latitude, stops[b].longitude)

\* The loop of _route_path_distance_m: the sum over i in range(i_src, i_dst)
\* of the distance from seq[i] to seq[i + 1] (the list is 1-based here).
RECURSIVE PathSum(_, _, _)
PathSum(seq, i, i_dst) ==
    IF i >= i_dst THEN 0
    ELSE StopDistance(seq[i], seq[i + 1]) + PathSum(seq, i + 1, i_dst)

\* The index of a row in the ordered list (id_to_index.get), or None.
IndexOf(seq, id) ==
    IF \E k \in DOMAIN seq : seq[k] = id
    THEN Some(CHOOSE k \in DOMAIN seq : seq[k] = id)
    ELSE None

\* The straight line instead of the walk along the route.
_route_path_distance_m_Direct(route, source_stop, dest_stop) ==
    StopDistance(source_stop, dest_stop)

\* _route_path_distance_m, in metres.
_route_path_distance_m(route, source_stop, dest_stop) ==
    LET seq == OrderedStops(RouteStops(route))
        i_src == IndexOf(seq, source_stop)
        i_dst == IndexOf(seq, dest_stop)
    IN  IF Len(seq) = 0 THEN StopDistance(source_stop, dest_stop)
        ELSE IF i_src = None \/ i_dst = None \/ Get(i_dst) <= Get(i_src)
        THEN StopDistance(source_stop, dest_stop)
        ELSE PathSum(seq, Get(i_src), Get(i_dst))

(***************************************************************************)
(* The fare specification: one call of _fare_from_distance_m.              *)
(***************************************************************************)
FareOffsets == {-1000, -1, 0, 1, 1000}

FareArgs ==
    {Num(k * (MmPerKm \div 2) + o) : k \in 0..MaxHalfKm, o \in FareOffsets}
    \cup {NaN, PosInf, NegInf, NotANumber}

Idle == [op |-> "none"]

FareInit ==
    /\ fareIn \in FareArgs
    /\ fareOut = None
    /\ routes = {}
    /\ stops = <<>>
    /\ buses = <<>>
    /\ tickets = <<>>
    /\ live = <<>>
    /\ trips = <<>>
    /\ assignments = {}
    /\ users = <<>>
    /\ procs = <<>>
    /\ now = 0
    /\ last = Idle

FareCall ==
    /\ fareOut = None
    /\ fareOut' = Some(_fare_from_distance_m(fareIn))
    /\ UNCHANGED <<fareIn, routes, stops, buses, tickets, live, now, last, trips, assignments, users, procs>>

FareNext == FareCall

SpecFare == FareInit /\ [][FareNext]_vars

(***************************************************************************)
(* C1: for every finite distance d >= 0, the fare is 10 when d <= 2500 m   *)
(* and 10 + n otherwise, n being the number of started kilometres beyond   *)
(* 2.5 km: the integer with (n - 1) km < d - 2.5 km <= n km.               *)
(***************************************************************************)
C1_FareRule ==
    (fareOut # None /\ fareIn.kind = "num" /\ fareIn.mm >= 0) =>
        /\ ~Get(fareOut).raised
        /\ IF fareIn.mm <= 2500000
           THEN Hundredths(Get(fareOut).value) = 1000
           ELSE \E n \in 1..(MaxHalfKm + 1) :
                  /\ Hundredths(Get(fareOut).value) = 1000 + 100 * n
                  /\ (n - 1) * 1000000 < fareIn.mm - 2500000
                  /\ fareIn.mm - 2500000 <= n * 1000000

\* The examples of the fare rule: 2500 -> 10, 2501 -> 11, 3500 -> 11, 3501 -> 12.
C1_Witness ==
    /\ fareOut # None
    /\ fareIn = Metres(3501)
    /\ fareOut = Some(Returned(Dec(1200, -2)))

\* The finite distances of the fare specification.
FiniteArgs == {d \in FareArgs : d.kind = "num"}

(***************************************************************************)
(* C15: the fare never decreases as the distance grows: a finite distance  *)
(* no longer than another is charged no more than the other.               *)
(***************************************************************************)
C15_FareMonotone ==
    (fareOut # None /\ fareIn \in FiniteArgs) =>
        /\ ~Get(fareOut).raised
        /\ \A d \in FiniteArgs : d.mm <= fareIn.mm =>
              /\ ~_fare_from_distance_m(d).raised
              /\ Hundredths(_fare_from_distance_m(d).value)
                     <= Hundredths(Get(fareOut).value)

\* 3501 m is charged 12, above the 11 of 3500 m and the 10 of 2500 m and of
\* a negative distance.
C15_Witness ==
    /\ fareOut # None
    /\ fareIn = Metres(3501)
    /\ Hundredths(Get(fareOut).value) = 1200
    /\ Hundredths(_fare_from_distance_m(Metres(3500)).value) = 1100
    /\ Hundredths(_fare_from_distance_m(Metres(2500)).value) = 1000
    /\ Hundredths(_fare_from_distance_m(Metres(-1)).value) = 1000

(***************************************************************************)
(* C16: _fare_from_distance_m has no error outcome: for every argument,    *)
(* a NaN and an infinity included, it returns a fare and raises nothing,   *)
(* and for a negative, non-numeric or malformed argument the fare is the   *)
(* base fare 10.                                                           *)
(***************************************************************************)
C16_FareNeverRaises ==
    fareOut # None =>
        /\ ~Get(fareOut).raised
        /\ (fareIn \notin FiniteArgs \/ fareIn.mm < 0) =>
              Hundredths(Get(fareOut).value) = 100 * BaseFare

(***************************************************************************)
(* C17: every value _fare_from_distance_m returns, the base tier and the   *)
(* fallback included, is a decimal quantized to two places (exponent -2).  *)
(***************************************************************************)
C17_FareTwoPlaces ==
    (fareOut # None /\ ~Get(fareOut).raised) => Get(fareOut).value.exp = -2

(***************************************************************************)
(* add_stop (admin).                                                       *)
(***************************************************************************)
\* A float field of a form: a text that float() parses to v, or one it
\* rejects.
FloatText(v) == [kind |-> "num", v |-> v]
BadFloatText == [kind |-> "text"]
\* The text 'nan' (any case, padded or not): float() parses it.
NaNFloatText == [kind |-> "nan"]

\* _to_float(value, min_value=..., max_value=...): float('nan') is neither
\* below min_value nor above max_value, so it is returned.
_to_float(value, min_value, max_value) ==
    IF value.kind = "nan" THEN Some(NaN)
    ELSE IF value.kind # "num" THEN None
    ELSE IF value.v < min_value THEN None
    ELSE IF value.v > max_value THEN None
    ELSE Some(value.v)

AddStopResult(created, error) == [op |-> "add_stop", created |-> created, error |-> error]

add_stop(role, method, route_id_raw, name_raw, order_raw, lat_raw, lon_raw) ==
    LET name == Strip(name_raw)
        route_id == _to_int(route_id_raw, 1)
        order == _to_int(order_raw, 0)
        lat == _to_float(lat_raw, -QuarterArc, QuarterArc)
        lon == _to_float(lon_raw, -HalfArc, HalfArc)
        Refuse(error) == /\ last' = AddStopResult(FALSE, error)
                         /\ UNCHANGED stops
    IN  /\ Len(stops) < MaxStops
        /\ IF role # "admin" THEN Refuse("Admin only")
           ELSE IF method # "POST" THEN Refuse("")
           ELSE IF route_id = None THEN Refuse("Select a valid route")
           ELSE IF name = <<>> THEN Refuse("Stop name is required")
           ELSE IF order = None THEN Refuse("Stop order must be a valid number")
           ELSE IF lat = None \/ lon = None
                THEN Refuse("Select a valid stop location on the map")
           ELSE IF Get(route_id) \notin routes THEN Refuse("Route not found")
           ELSE \* Stop.objects.create: a NaN bound to a NOT NULL float column
                \* is stored by a backend that keeps NaN and refused with an
                \* IntegrityError by one that binds it as NULL.
                \/ /\ stops' = Append(stops, StopRow(Get(route_id), name, Get(order),
                                                     Get(lat), Get(lon)))
                   /\ last' = AddStopResult(TRUE, "")
                \/ /\ "nan" \in {lat_raw.kind, lon_raw.kind}
                   /\ Refuse("IntegrityError")
        /\ UNCHANGED <<fareIn, fareOut, routes, buses, tickets, live, now, trips, assignments, users, procs>>

(***************************************************************************)
(* calculate_fare.                                                         *)
(***************************************************************************)
\* What a fare quote or a booking did: computed says whether the handler
\* reached _route_path_distance_m and _fare_from_distance_m.
Outcome(status, error, source_stop, dest_stop) ==
    [status |-> status, error |-> error, computed |-> FALSE,
     source_stop |-> source_stop, dest_stop |-> dest_stop,
     distance_m |-> None, fare |-> None, created |-> FALSE]

Computed(status, source_stop, dest_stop, distance_m, fare, created) ==
    [status |-> status, error |-> "", computed |-> TRUE,
     source_stop |-> source_stop, dest_stop |-> dest_stop,
     distance_m |-> Some(distance_m), fare |-> fare, created |-> created]

\* An order test that lets equal orders through.
calculate_fare_not_after_Strict(source_stop, dest_stop) ==
    stops[dest_stop].order < stops[source_stop].order

\* if dest_stop.order <= source_stop.order
calculate_fare_not_after(source_stop, dest_stop) ==
    stops[dest_stop].order <= stops[source_stop].order

calculate_fare_outcome(method, otp_raw, source_raw, destination_raw) ==
    LET otp == _normalize_bus_otp(otp_raw)
        source == Strip(source_raw)
        destination == Strip(destination_raw)
        bus == FirstBusByOtp(Get(otp))
        S == RouteStops(buses[Get(bus)].route)
        source_id == _to_int(source, 1)
        dest_id == _to_int(destination, 1)
        source_stop == IF source_id # None THEN StopById(S, Get(source_id))
                       ELSE FirstOrdered(StopsNamed(S, source))
        dest_stop == IF dest_id # None THEN StopById(S, Get(dest_id))
                     ELSE FirstOrdered(StopsNamed(S, destination))
        distance_m == _route_path_distance_m(buses[Get(bus)].route,
                                             Get(source_stop), Get(dest_stop))
        fare == _fare_from_distance_m(Metres(distance_m))
    IN  IF method # "POST" THEN Outcome(405, "Method not allowed", None, None)
        ELSE IF otp = None THEN Outcome(400, "Invalid OTP", None, None)
        ELSE IF source = <<>> \/ destination = <<>>
             THEN Outcome(400, "Missing fields", None, None)
        ELSE IF bus = None THEN Outcome(400, "Invalid OTP", None, None)
        ELSE IF source_stop = None \/ dest_stop = None
             THEN Outcome(400, "Stop not found", source_stop, dest_stop)
        ELSE IF Get(source_stop) = Get(dest_stop)
             THEN Outcome(400, "Source and destination cannot be the same stop",
                          source_stop, dest_stop)
        ELSE IF calculate_fare_not_after(Get(source_stop), Get(dest_stop))
             THEN Outcome(400, "Invalid stop selection", source_stop, dest_stop)
        ELSE IF fare.raised
             THEN Computed(500, source_stop, dest_stop, distance_m, None, FALSE)
        ELSE Computed(200, source_stop, dest_stop, distance_m,
                      Some(Hundredths(fare.value)), FALSE)

Request(op, method, otp, source, destination, outcome) ==
    [op |-> op, method |-> method, otp |-> otp, source |-> source,
     destination |-> destination, outcome |-> outcome]

calculate_fare(method, otp, source, destination) ==
    /\ last' = Request("calculate_fare", method, otp, source, destination,
                       calculate_fare_outcome(method, otp, source, destination))
    /\ UNCHANGED <<fareIn, fareOut, routes, stops, buses, tickets, live, now, trips, assignments, users, procs>>

(***************************************************************************)
(* bus_ticket (a logged-in passenger).                                     *)
(***************************************************************************)
TicketMinutes == 30        \* expires_at = now + timedelta(minutes=30)
TicksPerMinute == 600      \* the clock counts tenths of a second

TicketRow(bus, source_stop, destination_stop, fare, created_at) ==
    [bus |-> bus, source_stop |-> source_stop, destination_stop |-> destination_stop,
     fare |-> fare, created_at |-> created_at,
     expires_at |-> created_at + TicketMinutes * TicksPerMinute]

\* An order test that lets equal orders through.
bus_ticket_not_after_Strict(source_stop, dest_stop) ==
    stops[dest_stop].order < stops[source_stop].order

\* if dest_stop.order <= source_stop.order
bus_ticket_not_after(source_stop, dest_stop) ==
    stops[dest_stop].order <= stops[source_stop].order

\* Ticket.fare is a DecimalField(max_digits=6, decimal_places=2): preparing
\* a fare of 10000.00 or more for the column raises.
MaxFareDigits == 6

Storable(fare) == Hundredths(fare) < 10 ^ MaxFareDigits

\* A status of 302 is a redirect: to 'passenger' or 'passenger_select' with
\* an error message, or to 'ticket_view' after the ticket is created.
bus_ticket_outcome(method, otp_raw, source_raw, destination_raw) ==
    LET otp == _normalize_bus_otp(otp_raw)
        source == Strip(source_raw)
        destination == Strip(destination_raw)
        bus == FirstBusByOtp(Get(otp))
        S == RouteStops(buses[Get(bus)].route)
        source_id == _to_int(source, 1)
        dest_id == _to_int(destination, 1)
        source_stop == IF source_id # None THEN StopById(S, Get(source_id))
                       ELSE FirstOrdered(StopsNamed(S, source))
        dest_stop == IF dest_id # None THEN StopById(S, Get(dest_id))
                     ELSE FirstOrdered(StopsNamed(S, destination))
        distance_m == _route_path_distance_m(buses[Get(bus)].route,
                                             Get(source_stop), Get(dest_stop))
        fare == _fare_from_distance_m(Metres(distance_m))
    IN  IF method # "POST" THEN Outcome(302, "", None, None)
        ELSE IF otp = None THEN Outcome(302, "Invalid OTP", None, None)
        ELSE IF source = <<>> \/ destination = <<>>
             THEN Outcome(302, "Please select source and destination", None, None)
        ELSE IF bus = None THEN Outcome(302, "Invalid OTP", None, None)
        ELSE IF source_stop = None \/ dest_stop = None
             THEN Outcome(302, "Stop not found", source_stop, dest_stop)
        ELSE IF Get(source_stop) = Get(dest_stop)
             THEN Outcome(302, "Source and destination cannot be the same stop",
                          source_stop, dest_stop)
        ELSE IF bus_ticket_not_after(Get(source_stop), Get(dest_stop))
             THEN Outcome(302, "Invalid stop selection", source_stop, dest_stop)
        ELSE IF fare.raised
             THEN Computed(500, source_stop, dest_stop, distance_m, None, FALSE)
        ELSE IF ~Storable(fare.value)
             THEN Computed(500, source_stop, dest_stop, distance_m,
                           Some(Hundredths(fare.value)), FALSE)
        ELSE Computed(302, source_stop, dest_stop, distance_m,
                      Some(Hundredths(fare.value)), TRUE)

bus_ticket(method, otp, source, destination) ==
    LET outcome == bus_ticket_outcome(method, otp, source, destination)
        bus == Get(FirstBusByOtp(Get(_normalize_bus_otp(otp))))
    IN  /\ outcome.created => Len(tickets) < MaxTickets
        /\ last' = Request("bus_ticket", method, otp, source, destination, outcome)
        /\ tickets' = IF outcome.created
                      THEN Append(tickets,
                                  TicketRow(bus, stops[Get(outcome.source_stop)].name,
                                            stops[Get(outcome.dest_stop)].name,
                                            Get(outcome.fare), now))
                      ELSE tickets
        /\ UNCHANGED <<fareIn, fareOut, routes, stops, buses, live, now, trips, assignments, users, procs>>

(***************************************************************************)
(* The booking specification: the test fixture, a second route, and then   *)
(* any sequence of add_stop, calculate_fare and bus_ticket requests.       *)
(***************************************************************************)
\* A request is a record of its fields.  Each request set holds the
\* well-formed requests and, for each validation step, requests that fail it.
StopForm(role, method, route_id, name, order, latitude, longitude) ==
    [role |-> role, method |-> method, route_id |-> route_id, name |-> name,
     order |-> order, latitude |-> latitude, longitude |-> longitude]

\* New stops of the booking specification: on the bus's route, named as an
\* existing stop or not, or on the other route; each with the order of the
\* first stop and placed between S3 and S4.  Then forms add_stop refuses.
BookingStopForms ==
    { StopForm("admin", "POST", Str1("1"), Str2("S", "1"), Str1("0"), FloatText(2600), FloatText(0)),
      StopForm("admin", "POST", Str1("1"), Str1("X"), Str1("0"), FloatText(2600), FloatText(0)),
      StopForm("admin", "POST", Str1("2"), Str1("X"), Str1("0"), FloatText(2600), FloatText(0)) }
    \cup
    { StopForm("passenger", "POST", Str1("1"), Str1("X"), Str1("0"), FloatText(2600), FloatText(0)),
      StopForm("admin", "POST", Str1("3"), Str1("X"), Str1("0"), FloatText(2600), FloatText(0)),
      StopForm("admin", "POST", Str1("1"), Str1("X"), Str1("0"), FloatText(QuarterArc + 1), FloatText(0)) }

FareForm(method, otp, source, destination) ==
    [method |-> method, otp |-> otp, source |-> source, destination |-> destination]

\* The bus's code as a passenger types it: lower case, blanks around it.
TypedOtp == <<" ", "a", "b", "1", "2", "z", " ">>

\* Pairs of stop fields (source, destination).  A field is empty, an id
\* (" 1" is S0 with a blank before it, "5" is S4, "6" is the first stop
\* added) or the name S1.
StopFields ==
    { << <<" ", "1">>, Str1("5") >>,
      << Str1("5"), <<" ", "1">> >>,
      << <<" ", "1">>, <<" ", "1">> >>,
      << <<>>, Str1("5") >>,
      << <<" ", "1">>, <<>> >>,
      << Str2("S", "1"), Str1("5") >>,
      << <<" ", "1">>, Str2("S", "1") >>,
      << Str1("6"), Str1("5") >>,
      << <<" ", "1">>, Str1("6") >>,
      << Str1("6"), <<" ", "1">> >>,
      << Str2("S", "1"), Str1("6") >>,
      << Str2("S", "1"), Str2("S", "1") >> }

\* Fare quote and booking forms: every pair of stop fields with the bus's
\* code; then a GET, a code of no bus, a code one character short and an
\* empty code.
FareForms ==
    { FareForm("POST", TypedOtp, p[1], p[2]) : p \in StopFields }
    \cup
    { FareForm("GET", TypedOtp, Str1("1"), Str1("5")),
      FareForm("POST", Str5("Z", "Z", "Z", "Z", "Z"), Str1("1"), Str1("5")),
      FareForm("POST", <<"A", "B", "1", "2">>, Str1("1"), Str1("5")),
      FareForm("POST", <<>>, Str1("1"), Str1("5")) }

DbInit ==
    /\ fareIn = NotANumber
    /\ fareOut = None
    /\ routes = {1, 2}
    /\ stops = FixtureStops
    /\ buses = FixtureBuses
    /\ tickets = <<>>
    /\ live = <<>>
    /\ trips = <<>>
    /\ assignments = {}
    /\ users = <<>>
    /\ procs = <<>>
    /\ now = 0
    /\ last = Idle

AddStopStep ==
    \E f \in BookingStopForms :
        add_stop(f.role, f.method, f.route_id, f.name, f.order, f.latitude, f.longitude)

CalculateFareStep ==
    \E f \in FareForms : calculate_fare(f.method, f.otp, f.source, f.destination)

BusTicketStep ==
    \E f \in FareForms : bus_ticket(f.method, f.otp, f.source, f.destination)

BookingNext == AddStopStep \/ CalculateFareStep \/ BusTicketStep

SpecBooking == DbInit /\ [][BookingNext]_vars

(***************************************************************************)
(* C2: for a source and a destination stop of one route, the destination   *)
(* later than the source in the route's (order, id) sequence,              *)
(* _route_path_distance_m is the sum, over the stops after the source up   *)
(* to the destination, of the distance from the stop before it in the      *)
(* sequence; and this is the distance a served quote or booking used.      *)
(***************************************************************************)
\* The stops of the route from src to dst in the (order, id) sequence.
Walk(route, src, dst) ==
    {k \in RouteStops(route) : (k = src \/ Before(src, k)) /\ (k = dst \/ Before(k, dst))}

\* The stop of W right before k.
WalkPred(W, k) ==
    CHOOSE j \in W : Before(j, k) /\ \A m \in W : ~(Before(j, m) /\ Before(m, k))

RECURSIVE LegSum(_, _)
LegSum(W, K) ==
    IF K = {} THEN 0
    ELSE LET k == CHOOSE x \in K : TRUE
         IN  StopDistance(WalkPred(W, k), k) + LegSum(W, K \ {k})

WalkLength(route, src, dst) ==
    LegSum(Walk(route, src, dst), Walk(route, src, dst) \ {src})

Served(op) == last.op = op

C2_PathIsWalkAlongRoute ==
    /\ \A r \in routes : \A src \in RouteStops(r), dst \in RouteStops(r) :
          Before(src, dst) =>
              _route_path_distance_m(r, src, dst) = WalkLength(r, src, dst)
    /\ (Served("calculate_fare") \/ Served("bus_ticket")) /\ last.outcome.computed =>
          Get(last.outcome.distance_m) =
              WalkLength(stops[Get(last.outcome.source_stop)].route,
                         Get(last.outcome.source_stop), Get(last.outcome.dest_stop))

\* A quote served along a route that leaves the straight line: S0 -> S4 with
\* a stop off the line between them.
C2_Witness ==
    /\ Served("calculate_fare")
    /\ last.outcome.computed
    /\ Get(last.outcome.distance_m) >
          StopDistance(Get(last.outcome.source_stop), Get(last.outcome.dest_stop))
    /\ Cardinality(Walk(1, Get(last.outcome.source_stop), Get(last.outcome.dest_stop))) > 2

(***************************************************************************)
(* C3: a fare quote or a booking whose source and destination are the same *)
(* stop, or whose destination's order is less than or equal to the         *)
(* source's, never reaches the distance and fare computation and ends in a *)
(* rejection: 400 with an error for calculate_fare, a redirect with an     *)
(* error message and no ticket for bus_ticket.                             *)
(***************************************************************************)
BadSelection(o) ==
    /\ o.source_stop # None
    /\ o.dest_stop # None
    /\ \/ Get(o.source_stop) = Get(o.dest_stop)
       \/ stops[Get(o.dest_stop)].order <= stops[Get(o.source_stop)].order

C3_BadSelectionNeverComputed ==
    /\ Served("calculate_fare") /\ BadSelection(last.outcome) =>
          /\ ~last.outcome.computed
          /\ last.outcome.status = 400
          /\ last.outcome.error # ""
          /\ last.outcome.fare = None
    /\ Served("bus_ticket") /\ BadSelection(last.outcome) =>
          /\ ~last.outcome.computed
          /\ last.outcome.status = 302
          /\ last.outcome.error # ""
          /\ ~last.outcome.created

\* A quote for two different stops of equal order, turned down.
C3_Witness ==
    /\ Served("calculate_fare")
    /\ BadSelection(last.outcome)
    /\ Get(last.outcome.source_stop) # Get(last.outcome.dest_stop)
    /\ stops[Get(last.outcome.dest_stop)].order = stops[Get(last.outcome.source_stop)].order
    /\ last.outcome.status = 400

(***************************************************************************)
(* C4: a bus_ticket request that fails a validation step (not a POST, an   *)
(* OTP that is malformed or matches no bus, an empty stop field, a stop    *)
(* not found on the bus's route, source equal to destination, destination  *)
(* order <= source order) leaves the Ticket table unchanged; a request     *)
(* that passes them all appends exactly one ticket; nothing else changes   *)
(* the table.                                                              *)
(***************************************************************************)
\* The bus a typed code names: the first bus whose code is the text in upper
\* case without the blanks around it.
NamedBuses(otp) == {b \in BusIds : buses[b].otp_code = Upper(Strip(otp))}

\* The stops of the route a stop field names: the stop with that id when the
\* field is a whole number >= 1, the stops with that name otherwise.
NamedStops(route, field) ==
    LET n == ParseInt(Strip(field))
    IN  IF n # None /\ Get(n) >= 1
        THEN {i \in RouteStops(route) : i = Get(n)}
        ELSE {i \in RouteStops(route) : stops[i].name = Strip(field)}

Earliest(S) == CHOOSE i \in S : \A j \in S : i = j \/ Before(i, j)

PassesValidation(req) ==
    /\ req.method = "POST"
    /\ NamedBuses(req.otp) # {}
    /\ Strip(req.source) # <<>>
    /\ Strip(req.destination) # <<>>
    /\ LET b == CHOOSE x \in NamedBuses(req.otp) : \A y \in NamedBuses(req.otp) : x <= y
           src == NamedStops(buses[b].route, req.source)
           dst == NamedStops(buses[b].route, req.destination)
       IN  /\ src # {}
           /\ dst # {}
           /\ Earliest(src) # Earliest(dst)
           /\ stops[Earliest(dst)].order > stops[Earliest(src)].order

PayloadValue(kind, v) == [kind |-> kind, v |-> v]
Absent == PayloadValue("absent", 0)         \* the key is missing (get gives None)
NumText(v) == PayloadValue("text", v)       \* a text float() parses to v
WordText == PayloadValue("word", 0)         \* a text float() rejects
EmptyText == PayloadValue("empty", 0)       \* ''
JsonNumber(v) == PayloadValue("number", v)  \* a JSON number
JsonBigInt == PayloadValue("bigint", 0)     \* a JSON integer of 400 digits
JsonList == PayloadValue("list", 0)         \* a JSON list, not empty

\* Python truth of a payload value: None, '' and the number 0 are false.
Truthy(x) ==
    ~ \/ x.kind \in {"absent", "empty"}
      \/ x.kind = "number" /\ x.v = 0

\* a or b
PyOr(a, b) == IF Truthy(a) THEN a ELSE b

\* float(x): the number, or the exception it raises.
Floated(v) == [raised |-> "", value |-> v]
FloatRaised(e) == [raised |-> e, value |-> 0]

PyFloat(x) ==
    CASE x.kind \in {"text", "number"} -> Floated(x.v)
      [] x.kind \in {"word", "empty"}  -> FloatRaised("ValueError")
      [] x.kind \in {"absent", "list"} -> FloatRaised("TypeError")
      [] x.kind = "bigint"             -> FloatRaised("OverflowError")

\* A speed in metres per second is the fraction num / den (den > 0).
Rat(num, den) == IF num = 0 THEN [num |-> 0, den |-> 1] ELSE [num |-> num, den |-> den]
Zero == Rat(0, 1)

TicksPerSecond == 10
ShortGap == 5          \* 0.5 s, in ticks
LongGap == 1200        \* 120 s, in ticks

\* The estimate with a gap of exactly 120 s taken as too long.
_estimate_speed_mps_OpenWindow(prev_lat, prev_lng, prev_time, lat, lng, now_time) ==
    IF prev_lat = None \/ prev_lng = None \/ prev_time = None THEN Zero
    ELSE LET dt == now_time - Get(prev_time)
             d == distance_meters(Get(prev_lat), Get(prev_lng), lat, lng)
         IN  IF dt <= ShortGap \/ dt >= LongGap THEN Zero
             ELSE IF d < 0 THEN Zero
             ELSE Rat(d * TicksPerSecond, dt)

\* _estimate_speed_mps: the arguments prev_* are optional values.
_estimate_speed_mps(prev_lat, prev_lng, prev_time, lat, lng, now_time) ==
    IF prev_lat = None \/ prev_lng = None \/ prev_time = None THEN Zero
    ELSE LET dt == now_time - Get(prev_time)
             d == distance_meters(Get(prev_lat), Get(prev_lng), lat, lng)
         IN  IF dt <= ShortGap \/ dt > LongGap THEN Zero
             ELSE IF d < 0 THEN Zero
             ELSE Rat(d * TicksPerSecond, dt)

LiveRow(bus, latitude, longitude, speed, updated_at) ==
    [bus |-> bus, latitude |-> latitude, longitude |-> longitude,
     speed |-> speed, updated_at |-> updated_at]

LiveIds == DOMAIN live

\* BusLiveLocation.objects.filter(bus=bus)
LiveOf(bus) == {i \in LiveIds : live[i].bus = bus}

\* qs.order_by('-updated_at', '-id').first()
LatestLive(bus) ==
    LET L == LiveOf(bus)
        Newer(i, j) == \/ live[i].updated_at > live[j].updated_at
                       \/ live[i].updated_at = live[j].updated_at /\ i > j
    IN  IF L = {} THEN None
        ELSE Some(CHOOSE i \in L : \A j \in L \ {i} : Newer(i, j))

\* A new row beside the rows the bus has.
SaveLive_AlwaysCreate(table, loc, row) == Append(table, row)

\* loc.save(update_fields=[...]) when the bus has a row, objects.create(...)
\* when it has none.
SaveLive(table, loc, row) ==
    IF loc # None THEN [table EXCEPT ![Get(loc)] = row]
    ELSE Append(table, row)

FixDistance(lat, lng, stop) ==
    distance_meters(lat, lng, stops[stop].latitude, stops[stop].longitude)

\* The stop of lowest id, whatever its distance.
NearestStop_First(S, lat, lng) ==
    IF S = {} THEN None
    ELSE Some(CHOOSE i \in S : \A j \in S : i <= j)

\* The loop over Stop.objects.filter(route=bus.route): the rows come in id
\* order and a later row replaces the nearest one only when strictly nearer.
NearestStop(S, lat, lng) ==
    IF S = {} THEN None
    ELSE Some(CHOOSE i \in S :
                \A j \in S \ {i} :
                    \/ FixDistance(lat, lng, i) < FixDistance(lat, lng, j)
                    \/ FixDistance(lat, lng, i) = FixDistance(lat, lng, j) /\ i < j)

SnapRadius == 50

\* A stop at the radius itself counts as near.
NearEnough_Inclusive(dist) == dist <= SnapRadius

\* nearest_dist < 50
NearEnough(dist) == dist < SnapRadius

UpdateForm(bus_id, method, body, lat, latitude, lng, longitude, speed) ==
    [bus_id |-> bus_id, method |-> method, body |-> body, lat |-> lat,
     latitude |-> latitude, lng |-> lng, longitude |-> longitude, speed |-> speed]

\* What update_bus_location answered; saved says whether it ran bus.save().
Updated(req, status, error, saved) ==
    [op |-> "update_bus_location", req |-> req, status |-> status,
     error |-> error, saved |-> saved]

update_bus_location(req) ==
    LET lat == PyOr(req.lat, req.latitude)
        lng == PyOr(req.lng, req.longitude)
        speed == IF req.speed.kind = "absent" THEN JsonNumber(0) ELSE req.speed
        lat_f == PyFloat(lat)
        lng_f == PyFloat(lng)
        speed_f == PyFloat(PyOr(speed, JsonNumber(0)))
        raised == IF lat_f.raised # "" THEN lat_f.raised
                  ELSE IF lng_f.raised # "" THEN lng_f.raised
                  ELSE speed_f.raised
        Reply(status, error) == /\ last' = Updated(req, status, error, FALSE)
                                /\ UNCHANGED <<buses, live>>
        Store ==
            LET bus == buses[req.bus_id]
                la == lat_f.value
                ln == lng_f.value
                sp == IF speed_f.value < 0 THEN Zero ELSE Rat(speed_f.value, 1)
                loc == LatestLive(req.bus_id)
                est == IF loc # None /\ sp.num <= 0
                       THEN _estimate_speed_mps(Some(live[Get(loc)].latitude),
                                                Some(live[Get(loc)].longitude),
                                                Some(live[Get(loc)].updated_at),
                                                la, ln, now)
                       ELSE IF sp.num <= 0 THEN Zero ELSE sp
                nearest_stop == NearestStop(RouteStops(bus.route), la, ln)
                snap == /\ nearest_stop # None
                        /\ NearEnough(FixDistance(la, ln, Get(nearest_stop)))
                        /\ bus.current_stop # Some(stops[Get(nearest_stop)].name)
            IN  /\ live' = SaveLive(live, loc, LiveRow(req.bus_id, la, ln, est, now))
                /\ buses' = IF snap
                            THEN [buses EXCEPT ![req.bus_id].current_stop =
                                      Some(stops[Get(nearest_stop)].name)]
                            ELSE buses
                /\ last' = Updated(req, 200, "", snap)
    IN  /\ IF req.method # "POST" THEN Reply(405, "Method not allowed")
           ELSE IF req.body = "json_invalid" THEN Reply(400, "Invalid JSON")
           ELSE IF req.body = "json_array" THEN Reply(500, "AttributeError")
           ELSE IF lat.kind = "absent" \/ lng.kind = "absent"
                THEN Reply(400, "Missing latitude/longitude")
           ELSE IF req.bus_id \notin BusIds THEN Reply(404, "Bus not found")
           ELSE IF raised \in {"TypeError", "ValueError"}
                THEN Reply(400, "Invalid latitude/longitude/speed")
           ELSE IF raised # "" THEN Reply(500, raised)
           ELSE IF ~ /\ -QuarterArc <= lat_f.value /\ lat_f.value <= QuarterArc
                     /\ -HalfArc <= lng_f.value /\ lng_f.value <= HalfArc
                THEN Reply(400, "Invalid latitude/longitude range")
           ELSE Store
        /\ UNCHANGED <<fareIn, fareOut, routes, stops, tickets, now, trips, assignments, users, procs>>

(***************************************************************************)
(* _route_remaining_distance_m and get_bus_location.                       *)
(***************************************************************************)
\* The stops of S whose order is not below the order of cur.
AfterCurrent_Inclusive(S, cur) == {i \in S : stops[i].order >= stops[cur].order}

\* [s for s in stops if s.order > current.order]
AfterCurrent(S, cur) == {i \in S : stops[i].order > stops[cur].order}

\* Nothing beyond the next stop.
TailSum_None(seq, i) == 0

\* The sum of the distances between neighbours of seq from place i on.
RECURSIVE TailSum(_, _)
TailSum(seq, i) ==
    IF i >= Len(seq) THEN 0
    ELSE StopDistance(seq[i], seq[i + 1]) + TailSum(seq, i + 1)

Remaining(next_stop, dist_to_next, remaining) ==
    [next_stop |-> next_stop, dist_to_next |-> dist_to_next, remaining |-> remaining]

\* _route_remaining_distance_m(bus, lat, lng): three optional values.
_route_remaining_distance_m(bus, lat, lng) ==
    LET S == RouteStops(buses[bus].route)
        name == buses[bus].current_stop
        named == IF name = None THEN {} ELSE StopsNamed(S, Get(name))
        current == FirstOrdered(named)
    IN  IF S = {} THEN Remaining(None, None, None)
        ELSE IF current = None
        THEN LET next_stop == Get(FirstOrdered(S))
                 remaining == FixDistance(lat, lng, next_stop)
             IN  Remaining(Some(next_stop), Some(remaining), Some(remaining))
        ELSE LET remaining_stops == AfterCurrent(S, Get(current))
                 seq == OrderedStops(remaining_stops)
             IN  IF remaining_stops = {} THEN Remaining(None, Some(0), Some(0))
                 ELSE Remaining(Some(seq[1]),
                                Some(FixDistance(lat, lng, seq[1])),
                                Some(FixDistance(lat, lng, seq[1]) + TailSum(seq, 1)))

SecondsPerMinute == 60

\* The whole minutes elapsed.
RoundMinutes_Floor(eta_seconds) == eta_seconds \div SecondsPerMinute

\* int(round(x / 60)) of a whole x >= 0: round() takes a half to the even
\* neighbour.
RoundMinutes(eta_seconds) ==
    LET q == eta_seconds \div SecondsPerMinute
        r == eta_seconds % SecondsPerMinute
    IN  IF 2 * r < SecondsPerMinute THEN q
        ELSE IF 2 * r > SecondsPerMinute THEN q + 1
        ELSE IF q % 2 = 0 THEN q ELSE q + 1

\* What get_bus_location answered: an error, or the JSON object.
Located(bus_id, status, error, lat, lng, speed, time, current_stop, next_stop, eta_seconds, eta_minutes) ==
    [op |-> "get_bus_location", bus_id |-> bus_id, status |-> status,
     error |-> error, lat |-> lat, lng |-> lng, speed |-> speed, time |-> time,
     current_stop |-> current_stop, next_stop |-> next_stop,
     eta_seconds |-> eta_seconds, eta_minutes |-> eta_minutes]

NotLocated(bus_id, error) ==
    Located(bus_id, 404, error, None, None, None, None, None, None, None, None)

\* Only above half a metre per second.
FastEnough_Strict(speed_mps) == 2 * speed_mps.num > speed_mps.den

\* speed_mps >= 0.5
FastEnough(speed_mps) == 2 * speed_mps.num >= speed_mps.den

get_bus_location(bus_id) ==
    LET location == LatestLive(bus_id)
        row == live[Get(location)]
        rem == _route_remaining_distance_m(bus_id, row.latitude, row.longitude)
        next_stop == IF rem.next_stop # None
                     THEN Some(stops[Get(rem.next_stop)].name) ELSE None
        speed_mps == row.speed
        moving == /\ rem.next_stop # None
                  /\ rem.dist_to_next # None
                  /\ FastEnough(speed_mps)
        eta_seconds == (Get(rem.dist_to_next) * speed_mps.den) \div speed_mps.num
    IN  /\ IF bus_id \notin BusIds THEN last' = NotLocated(bus_id, "Bus not found")
           ELSE IF location = None
                THEN last' = NotLocated(bus_id, "location not available")
           ELSE last' = Located(bus_id, 200, "", Some(row.latitude), Some(row.longitude),
                                Some(row.speed), Some(row.updated_at),
                                buses[bus_id].current_stop, next_stop,
                                IF moving THEN Some(eta_seconds) ELSE None,
                                IF moving THEN Some(RoundMinutes(eta_seconds)) ELSE None)
        /\ UNCHANGED <<fareIn, fareOut, routes, stops, buses, tickets, live, now, trips, assignments, users, procs>>

(***************************************************************************)
(* The tracking specification: a driver's device posts fixes, passengers   *)
(* poll the location, and the clock advances.                              *)
(***************************************************************************)
\* The instants at which requests arrive, in ticks: by turns 0.6 s and
\* 120.1 s lie between them.
Instants == <<0, 6, 1207, 1213, 2414, 2420, 3621>>

Tick ==
    /\ \E k \in DOMAIN Instants :
          /\ Instants[k] = now
          /\ k <= MaxClock
          /\ k < Len(Instants)
          /\ now' = Instants[k + 1]
    /\ UNCHANGED <<fareIn, fareOut, routes, stops, buses, tickets, live, last, trips, assignments, users, procs>>

\* The tables when tracking starts: the fixture as it is; or with one more
\* stop on the bus's route, 98 m up the line from S0 and with the order of
\* S0; or with one stop on the other route; or with the bus on the other
\* route, which has no stops.
Tables(stopRows, busRows) == [stops |-> stopRows, buses |-> busRows]

TrackTables ==
    { Tables(FixtureStops, FixtureBuses),
      Tables(Append(FixtureStops, StopRow(1, Str1("X"), 0, 98, 0)), FixtureBuses),
      Tables(Append(FixtureStops, StopRow(2, Str1("X"), 0, 49, 0)), FixtureBuses),
      Tables(FixtureStops, << BusRow(2, FixtureOtp) >>) }

Place(lat, lng) == [lat |-> lat, lng |-> lng]

\* Where the fixes are taken: at S0 (latitude 0, longitude 0), 49 m and
\* 50 m up the line, at S4, and at the pole on the meridian 180.
FixPlaces ==
    { Place(0, 0), Place(49, 0), Place(50, 0), Place(3403, 0),
      Place(QuarterArc, HalfArc) }

FormFix(bus_id, place, speed) ==
    UpdateForm(bus_id, "POST", "form", NumText(place.lat), Absent,
               NumText(place.lng), Absent, speed)

JsonFix(lat, latitude, lng, longitude) ==
    UpdateForm(1, "POST", "json", lat, latitude, lng, longitude, Absent)

\* Location updates: a form post from every place, without a speed; at one
\* place with a speed and with a negative speed; JSON
\* bodies with the numbers 0 under either pair of keys; then one request for
\* every way the handler refuses.
UpdateForms ==
    { FormFix(1, p, Absent) : p \in FixPlaces }
    \cup
    { FormFix(1, Place(49, 0), NumText(10)),
      FormFix(1, Place(49, 0), NumText(-1)),
      JsonFix(JsonNumber(0), Absent, JsonNumber(0), Absent),
      JsonFix(Absent, JsonNumber(0), Absent, JsonNumber(0)),
      UpdateForm(1, "GET", "form", NumText(49), Absent, NumText(0), Absent, Absent),
      UpdateForm(2, "POST", "form", NumText(49), Absent, NumText(0), Absent, Absent),
      FormFix(1, Place(QuarterArc + 1, 0), Absent),
      FormFix(1, Place(49, -HalfArc - 1), Absent),
      UpdateForm(1, "POST", "form", EmptyText, NumText(49), Absent, Absent, Absent),
      FormFix(1, Place(49, 0), WordText),
      UpdateForm(1, "POST", "json_invalid", Absent, Absent, Absent, Absent, Absent),
      UpdateForm(1, "POST", "json_array", Absent, Absent, Absent, Absent, Absent),
      JsonFix(JsonBigInt, Absent, JsonNumber(49), Absent),
      JsonFix(JsonList, Absent, JsonNumber(49), Absent) }

TrackInit ==
    /\ fareIn = NotANumber
    /\ fareOut = None
    /\ routes = {1, 2}
    /\ \E t \in TrackTables : stops = t.stops /\ buses = t.buses
    /\ tickets = <<>>
    /\ live = <<>>
    /\ trips = <<>>
    /\ assignments = {}
    /\ users = <<>>
    /\ procs = <<>>
    /\ now = 0
    /\ last = Idle

UpdateBusLocationStep == \E req \in UpdateForms : update_bus_location(req)

GetBusLocationStep == \E bus_id \in {1, 2} : get_bus_location(bus_id)

TrackNext == UpdateBusLocationStep \/ GetBusLocationStep \/ Tick

SpecTrack == TrackInit /\ [][TrackNext]_vars

(***************************************************************************)
(* Reading the tracking properties on a step.                              *)
(***************************************************************************)
\* The step is update_bus_location answering (the clock stands still in it).
UpdateAnswered == last'.op = "update_bus_location" /\ now' = now

\* The step is get_bus_location answering.
GetAnswered == last'.op = "get_bus_location" /\ now' = now

\* The coordinate a payload carries: under the short key when the payload
\* has it, under the long key otherwise.
Carried(short, long) == IF short.kind # "absent" THEN short ELSE long
ReqLat(req) == Carried(req.lat, req.latitude)
ReqLng(req) == Carried(req.lng, req.longitude)

IsNumber(x) == x.kind \in {"text", "number"}
Within(x, bound) == IsNumber(x) /\ -bound <= x.v /\ x.v <= bound
Outside(x, bound) == x.kind = "bigint" \/ (IsNumber(x) /\ ~ Within(x, bound))

\* A location update for an existing vehicle: a POST with a form body or a
\* JSON object.
Posted(req) ==
    /\ req.method = "POST"
    /\ req.bus_id \in BusIds
    /\ req.body \in {"form", "json"}

\* A fix in range for an existing vehicle, its speed a number or absent.
InRangeFix(req) ==
    /\ Posted(req)
    /\ Within(ReqLat(req), QuarterArc)
    /\ Within(ReqLng(req), HalfArc)
    /\ req.speed.kind \in {"absent", "text", "number"}

\* The distances from the fix of a request to the stops of its bus's route.
RouteOf(req) == RouteStops(buses[req.bus_id].route)
FixToStop(req, i) == FixDistance(ReqLat(req).v, ReqLng(req).v, i)

(***************************************************************************)
(* C5: a location update for an existing vehicle whose latitude is outside *)
(* [-90, 90] or whose longitude is outside [-180, 180] is answered with    *)
(* HTTP 400 and leaves the live readings and every bus's current_stop as   *)
(* they were.                                                              *)
(***************************************************************************)
C5_OutOfRangeRejected ==
    [][ ( /\ UpdateAnswered
          /\ Posted(last'.req)
          /\ \/ Outside(ReqLat(last'.req), QuarterArc)
             \/ Outside(ReqLng(last'.req), HalfArc) )
        => ( /\ last'.status = 400
             /\ live' = live
             /\ buses' = buses ) ]_vars

(***************************************************************************)
(* C6: for an existing vehicle, every location update whose latitude is in *)
(* [-90, 90] and whose longitude is in [-180, 180] is answered with        *)
(* success, whatever the numbers are (0 included) and whether the speed is *)
(* supplied, absent or not positive.                                       *)
(***************************************************************************)
C6_InRangeIngestSucceeds ==
    [][ (UpdateAnswered /\ InRangeFix(last'.req)) => last'.status = 200 ]_vars

(***************************************************************************)
(* C7: a successful ingest leaves its vehicle exactly one live-location    *)
(* row, holding the latitude and longitude of that ingest; nothing else    *)
(* changes the table, so the row holds the most recent ingest; and         *)
(* get_bus_location answers 404 'location not available' while the vehicle *)
(* has no row and the fix of its row afterwards.                           *)
(***************************************************************************)
C7_SoleLatestReading ==
    [][ /\ (UpdateAnswered /\ last'.status = 200) =>
              LET req == last'.req
                  rows == {i \in DOMAIN live' : live'[i].bus = req.bus_id}
              IN  /\ Cardinality(rows) = 1
                  /\ \A i \in rows : /\ live'[i].latitude = ReqLat(req).v
                                     /\ live'[i].longitude = ReqLng(req).v
                  /\ \A i \in DOMAIN live : live[i].bus # req.bus_id => live'[i] = live[i]
        /\ ~ (UpdateAnswered /\ last'.status = 200) => live' = live
        /\ (GetAnswered /\ last'.bus_id \in BusIds) =>
              LET rows == LiveOf(last'.bus_id)
              IN  IF rows = {}
                  THEN last'.status = 404 /\ last'.error = "location not available"
                  ELSE /\ last'.status = 200
                       /\ \A i \in rows : /\ last'.lat = Some(live[i].latitude)
                                          /\ last'.lng = Some(live[i].longitude) ]_vars

\* A second ingest has superseded the first (the stored speed is measured
\* from the reading before) and get_bus_location reports its fix.
C7_Witness ==
    /\ last.op = "get_bus_location"
    /\ last.status = 200
    /\ last.lat = Some(3403)
    /\ last.lng = Some(0)
    /\ Get(last.speed).num > 0
    /\ Get(last.speed).den > 1
    /\ Cardinality(LiveOf(1)) = 1

(***************************************************************************)
(* C8: after a successful ingest whose fix is less than 50 m from the      *)
(* nearest stop of the vehicle's route, the bus's current_stop is the name *)
(* of a stop at the minimum distance over the stops of the route; and the  *)
(* handler writes the bus exactly when that name differs from the          *)
(* current_stop before.                                                    *)
(***************************************************************************)
C8_SnapToNearestStop ==
    [][ ( /\ UpdateAnswered
          /\ last'.status = 200
          /\ \E i \in RouteOf(last'.req) : FixToStop(last'.req, i) < 50 )
        => LET req == last'.req
               S == RouteOf(req)
               nearest == {i \in S : \A j \in S : FixToStop(req, i) <= FixToStop(req, j)}
           IN  /\ \E i \in nearest : buses'[req.bus_id].current_stop = Some(stops[i].name)
               /\ last'.saved <=> (buses'[req.bus_id].current_stop
                                       # buses[req.bus_id].current_stop)
               /\ \A b \in BusIds \ {req.bus_id} : buses'[b] = buses[b] ]_vars

\* The bus was elsewhere and a fix at S4 moved it there.
C8_Witness ==
    /\ last.op = "update_bus_location"
    /\ last.status = 200
    /\ last.saved
    /\ ReqLat(last.req).v = 3403
    /\ buses[1].current_stop = Some(Str2("S", "4"))

(***************************************************************************)
(* C9: a successful ingest whose fix is 50 m or more from every stop of    *)
(* the vehicle's route, or whose route has no stops, leaves the bus's      *)
(* current_stop as it was and writes no bus.                               *)
(***************************************************************************)
C9_FarFixKeepsCurrentStop ==
    [][ ( /\ UpdateAnswered
          /\ last'.status = 200
          /\ \A i \in RouteOf(last'.req) : FixToStop(last'.req, i) >= 50 )
        => ( /\ buses' = buses
             /\ ~ last'.saved ) ]_vars

\* The bus was at S4, and a fix at the pole left it recorded there.
C9_Witness ==
    /\ last.op = "update_bus_location"
    /\ last.status = 200
    /\ ReqLat(last.req).v = QuarterArc
    /\ buses[1].current_stop = Some(Str2("S", "4"))

(***************************************************************************)
(* C10: the next stop get_bus_location reports is the first stop of the    *)
(* route (lowest order) when the bus has no recorded current_stop;         *)
(* otherwise the first of the stops whose order is strictly greater than   *)
(* the order of the current stop (the first stop of the route that bears   *)
(* the recorded name); and none when no stop has a greater order.          *)
(***************************************************************************)
\* The first of the stops T in route sequence.
Leading(T) == {i \in T : \A j \in T : \/ stops[i].order < stops[j].order
                                      \/ stops[i].order = stops[j].order /\ i <= j}

C10_NextStop ==
    (last.op = "get_bus_location" /\ last.status = 200) =>
        LET bus == buses[last.bus_id]
            S == RouteStops(bus.route)
            current == Leading({i \in S : Some(stops[i].name) = bus.current_stop})
            ahead == IF bus.current_stop = None THEN S
                     ELSE {i \in S : \A c \in current : stops[i].order > stops[c].order}
        IN  /\ bus.current_stop # None => current # {}
            /\ IF ahead = {} THEN last.next_stop = None
               ELSE \A i \in Leading(ahead) : last.next_stop = Some(stops[i].name)

\* The bus is at X, whose order is that of S0: the next stop is S1.
C10_Witness ==
    /\ last.op = "get_bus_location"
    /\ last.status = 200
    /\ last.current_stop = Some(Str1("X"))
    /\ last.next_stop = Some(Str2("S", "1"))

(***************************************************************************)
(* The arrival-time specification: one bus posts fixes along the line      *)
(* below S0 .. S4, with or without a speed, and passengers poll it.        *)
(***************************************************************************)
\* The instants at which requests arrive, in ticks: by turns 120 s and
\* 0.5 s lie between them.
EtaInstants == <<0, 1200, 1205, 2405, 2410, 3610, 3615>>

EtaTick ==
    /\ \E k \in DOMAIN EtaInstants :
          /\ EtaInstants[k] = now
          /\ k <= MaxClock
          /\ k < Len(EtaInstants)
          /\ now' = EtaInstants[k + 1]
    /\ UNCHANGED <<fareIn, fareOut, routes, stops, buses, tickets, live, last, trips, assignments, users, procs>>

\* The bus on the fixture's route, or on the route that has no stops.
EtaTables ==
    { Tables(FixtureStops, FixtureBuses),
      Tables(FixtureStops, << BusRow(2, FixtureOtp) >>) }

\* Latitudes of the fixes (longitude 0): 49 m from S0; 100 m, 159 m, 160 m
\* and 300 m from it, away from every stop; and S4.  In 120 s the 60 m from
\* 100 to 160 are 0.5 m/s and the 59 m from 100 to 159 are less.
EtaLatitudes == {49, 100, 159, 160, 300, 3403}

\* Every fix without a speed; some with the speed 10 m/s, with 0 and with a
\* negative speed.
EtaForms ==
    { FormFix(1, Place(lat, 0), Absent) : lat \in EtaLatitudes }
    \cup
    { FormFix(1, Place(lat, 0), NumText(10)) : lat \in {49, 100, 300, 3403} }
    \cup
    { FormFix(1, Place(160, 0), NumText(0)),
      FormFix(1, Place(160, 0), NumText(-1)) }

EtaInit ==
    /\ fareIn = NotANumber
    /\ fareOut = None
    /\ routes = {1, 2}
    /\ \E t \in EtaTables : stops = t.stops /\ buses = t.buses
    /\ tickets = <<>>
    /\ live = <<>>
    /\ trips = <<>>
    /\ assignments = {}
    /\ users = <<>>
    /\ procs = <<>>
    /\ now = 0
    /\ last = Idle

EtaUpdateStep == \E req \in EtaForms : update_bus_location(req)

EtaGetStep == get_bus_location(1)

EtaNext == EtaUpdateStep \/ EtaGetStep \/ EtaTick

SpecEta == EtaInit /\ [][EtaNext]_vars

\* get_bus_location answered with the location.
Polled == last.op = "get_bus_location" /\ last.status = 200

(***************************************************************************)
(* C11: get_bus_location returns eta_seconds and eta_minutes, both or      *)
(* neither; it returns them exactly when a next stop exists and the stored *)
(* speed is at least 0.5 m/s.                                              *)
(***************************************************************************)
C11_EtaOnlyWhenMoving ==
    Polled =>
        /\ (last.eta_seconds # None) <=> (last.eta_minutes # None)
        /\ (last.eta_seconds # None) <=>
              /\ last.next_stop # None
              /\ 2 * Get(last.speed).num >= Get(last.speed).den

\* The stored speed is 0.5 m/s, a next stop exists and an ETA is returned.
C11_Witness ==
    /\ Polled
    /\ 2 * Get(last.speed).num = Get(last.speed).den
    /\ last.next_stop # None
    /\ last.eta_seconds # None

\* The stops ahead of a bus: every stop of its route when it has no recorded
\* current_stop, else the stops whose order is greater than the order of
\* the first stop bearing the recorded name.
Ahead(bus_id) ==
    LET bus == buses[bus_id]
        S == RouteStops(bus.route)
        current == Leading({i \in S : Some(stops[i].name) = bus.current_stop})
    IN  IF bus.current_stop = None THEN S
        ELSE {i \in S : \A c \in current : stops[i].order > stops[c].order}

(***************************************************************************)
(* C12: whenever get_bus_location returns an ETA, eta_seconds is the whole *)
(* number of seconds in distanceToNextStop / speed, and eta_minutes is a   *)
(* whole number of minutes nearest to eta_seconds / 60, so eta_minutes *   *)
(* 60 is within 30 seconds of eta_seconds.                                 *)
(***************************************************************************)
C12_EtaValue ==
    (Polled /\ last.eta_seconds # None) =>
        /\ Leading(Ahead(last.bus_id)) # {}
        /\ \A next \in Leading(Ahead(last.bus_id)) :
            LET dist == FixDistance(Get(last.lat), Get(last.lng), next)
                speed == Get(last.speed)
                secs == Get(last.eta_seconds)
                mins == Get(last.eta_minutes)
            IN  /\ secs * speed.num <= dist * speed.den
                /\ dist * speed.den < (secs + 1) * speed.num
                /\ Abs(mins * 60 - secs) <= 30
                /\ \A other \in {mins - 1, mins + 1} :
                       Abs(mins * 60 - secs) <= Abs(other * 60 - secs)

\* 100 m from the next stop at 10 m/s: 10 seconds, 0 minutes.
C12_Witness ==
    /\ Polled
    /\ last.lat = Some(100)
    /\ last.next_stop = Some(Str2("S", "0"))
    /\ Get(last.speed) = Rat(10, 1)
    /\ last.eta_seconds = Some(10)
    /\ last.eta_minutes = Some(0)

\* The last stop of the stops T in route sequence.
Terminal(T) == CHOOSE i \in T : \A j \in T : j = i \/ Before(j, i)

\* What _route_remaining_distance_m returns for the fix get_bus_location
\* last read.
PolledRemaining ==
    _route_remaining_distance_m(last.bus_id, Get(last.lat), Get(last.lng))

\* The way from the fix to the stop next and on along the route through
\* its last stop.
PathThroughTerminal(next) ==
    LET route == buses[last.bus_id].route
    IN  FixDistance(Get(last.lat), Get(last.lng), next)
        + WalkLength(route, next, Terminal(RouteStops(route)))

C14_StoredSpeed ==
    [][ (UpdateAnswered /\ last'.status = 200) =>
            LET req == last'.req
                before == LiveOf(req.bus_id)
                reported == IF req.speed.kind = "absent" THEN 0 ELSE req.speed.v
            IN  \A i \in DOMAIN live' : live'[i].bus = req.bus_id =>
                    LET stored == live'[i].speed
                    IN  IF reported > 0 THEN stored = Rat(reported, 1)
                        ELSE IF \E j \in before :
                                   /\ now - live[j].updated_at > ShortGap
                                   /\ now - live[j].updated_at <= LongGap
                        THEN \A j \in before :
                                LET dt == now - live[j].updated_at
                                    d == distance_meters(live[j].latitude, live[j].longitude,
                                                         live'[i].latitude, live'[i].longitude)
                                IN  /\ stored.den > 0
                                    /\ stored.num * dt = d * TicksPerSecond * stored.den
                        ELSE stored = Zero ]_vars

\* A fix without a speed, 60 m from the reading taken exactly 120 s before
\* it, is stored with 0.5 m/s.
C14_Witness ==
    /\ last.op = "update_bus_location"
    /\ last.status = 200
    /\ last.req.speed = Absent
    /\ \E i \in LiveIds : /\ live[i].updated_at = now
                          /\ live[i].speed = Rat(60 * TicksPerSecond, LongGap)

(***************************************************************************)
(* register_bus (admin), validate_bus_otp, get_stops_by_otp and            *)
(* get_route_stops.                                                        *)
(***************************************************************************)
\* A decimal field of a form in hundredths: a text Decimal() parses, or one
\* it rejects.
DecimalText(hundredths) == [kind |-> "num", v |-> hundredths]
BadDecimalText == [kind |-> "text"]
\* The texts 'NaN' and 'Infinity': Decimal() parses both.
NaNDecimalText == [kind |-> "nan"]
InfDecimalText == [kind |-> "inf"]

\* _to_decimal(value, min_value=Decimal('0.01')), in hundredths.  The
\* comparison d < min_value stands after the try block: on Decimal('NaN') it
\* raises decimal.InvalidOperation, which nothing catches.
_to_decimal_raises(value) == value.kind = "nan"

_to_decimal(value, min_value) ==
    IF value.kind = "inf" THEN Some(PosInf)
    ELSE IF value.kind # "num" THEN None
    ELSE IF value.v < min_value THEN None
    ELSE Some(value.v)

MinBaseFare == 1           \* Decimal('0.01'), in hundredths

BusForm(role, method, vehicle_number, operator_type, operator_name, route_id, base_fare) ==
    [role |-> role, method |-> method, vehicle_number |-> vehicle_number,
     operator_type |-> operator_type, operator_name |-> operator_name,
     route_id |-> route_id, base_fare |-> base_fare]

RegisterBusResult(created, error) ==
    [op |-> "register_bus", created |-> created, error |-> error]

\* register_bus: otp is what generate_otp (random.choices, five characters
\* of A-Z0-9) returns for the new row's otp_code; the column is not unique.
register_bus(form, otp) ==
    LET vehicle_number == Strip(form.vehicle_number)
        operator_type == Strip(form.operator_type)
        operator_name == Strip(form.operator_name)
        route_id == _to_int(form.route_id, 1)
        base_fare == _to_decimal(form.base_fare, MinBaseFare)
        Refuse(error) == /\ last' = RegisterBusResult(FALSE, error)
                         /\ UNCHANGED buses
    IN  /\ Len(buses) < MaxBuses
        /\ IF form.role # "admin" THEN Refuse("Admin only")
           ELSE IF form.method # "POST" THEN Refuse("")
           ELSE IF _to_decimal_raises(form.base_fare) THEN Refuse("InvalidOperation")
           ELSE IF vehicle_number = <<>> THEN Refuse("Vehicle number is required")
           ELSE IF route_id = None THEN Refuse("Select a valid route")
           ELSE IF operator_type = <<>> THEN Refuse("Operator type is required")
           ELSE IF operator_name = <<>> THEN Refuse("Operator name is required")
           ELSE IF base_fare = None THEN Refuse("Base fare must be a valid number")
           ELSE IF Get(route_id) \notin routes THEN Refuse("Route not found")
           \* Bus.objects.create: preparing an infinite base_fare for the
           \* DecimalField(max_digits=6, decimal_places=2) column raises.
           ELSE IF form.base_fare.kind = "inf" THEN Refuse("InvalidOperation")
           ELSE /\ buses' = Append(buses, [BusRow(Get(route_id), otp) EXCEPT
                                               !.operator_name = operator_name,
                                               !.base_fare = Get(base_fare)])
                /\ last' = RegisterBusResult(TRUE, "")
        /\ UNCHANGED <<fareIn, fareOut, routes, stops, tickets, live, now, trips, assignments, users, procs>>

\* Bus.objects.filter(otp_code=otp)
BusesByOtp(otp) == {b \in BusIds : buses[b].otp_code = otp}

\* What validate_bus_otp answered: a JSON body (status 200 or 400) or a
\* redirect (status 302) to the page named.
Validated(method, url_otp, post_otp, status, error, to, bus_id) ==
    [op |-> "validate_bus_otp", method |-> method, url_otp |-> url_otp,
     post_otp |-> post_otp, status |-> status, error |-> error, to |-> to,
     bus_id |-> bus_id]

\* validate_bus_otp: url_otp and post_otp are optional texts.
validate_bus_otp(method, url_otp, post_otp) ==
    LET otp_from_url == method = "GET" /\ url_otp # None
        raw == IF method = "POST" THEN post_otp ELSE url_otp
        otp == IF raw = None THEN None ELSE _normalize_bus_otp(Get(raw))
        bus == FirstBusByOtp(Get(otp))
        Reply(status, error, to, bus_id) ==
            last' = Validated(method, url_otp, post_otp, status, error, to, bus_id)
    IN  /\ IF otp_from_url /\ otp = None THEN Reply(400, "Invalid OTP", "", None)
           ELSE IF otp = None THEN Reply(302, "Enter OTP", "passenger", None)
           ELSE IF bus = None
                THEN IF method = "GET" THEN Reply(400, "Invalid OTP", "", None)
                     ELSE Reply(302, "Invalid OTP", "passenger", None)
           ELSE IF method = "GET" THEN Reply(200, "", "", bus)
           ELSE Reply(302, "", "passenger_select", bus)
        /\ UNCHANGED <<fareIn, fareOut, routes, stops, buses, tickets, live, now, trips, assignments, users, procs>>

\* list(qs.order_by('order')) for the rows S: the sequences the database may
\* return, rows of equal order in any sequence.
RECURSIVE OrderedByOrder(_)
OrderedByOrder(S) ==
    IF S = {} THEN { <<>> }
    ELSE LET least == {i \in S : \A j \in S : stops[i].order <= stops[j].order}
         IN  UNION { { <<i>> \o rest : rest \in OrderedByOrder(S \ {i}) } : i \in least }

\* What a stop listing answered: key is the OTP or the route id of the URL.
Listed(op, key, status, error, route, listing) ==
    [op |-> op, key |-> key, status |-> status, error |-> error,
     route |-> route, listing |-> listing]

\* get_stops_by_otp: Bus.objects.get raises DoesNotExist (caught) for no row
\* and MultipleObjectsReturned (not caught) for more than one.
get_stops_by_otp(otp_raw) ==
    LET otp == _normalize_bus_otp(otp_raw)
        found == BusesByOtp(Get(otp))
        Reply(status, error) ==
            last' = Listed("get_stops_by_otp", otp_raw, status, error, None, None)
    IN  /\ IF otp = None THEN Reply(400, "Invalid OTP")
           ELSE IF found = {} THEN Reply(400, "Invalid OTP")
           ELSE IF Cardinality(found) > 1 THEN Reply(500, "MultipleObjectsReturned")
           ELSE \E b \in found :
                  \E seq \in OrderedByOrder(RouteStops(buses[b].route)) :
                     last' = Listed("get_stops_by_otp", otp_raw, 200, "",
                                    Some(buses[b].route), Some(seq))
        /\ UNCHANGED <<fareIn, fareOut, routes, stops, buses, tickets, live, now, trips, assignments, users, procs>>

\* get_route_stops
get_route_stops(route_id) ==
    /\ \E seq \in OrderedByOrder(RouteStops(route_id)) :
          last' = Listed("get_route_stops", route_id, 200, "", Some(route_id), Some(seq))
    /\ UNCHANGED <<fareIn, fareOut, routes, stops, buses, tickets, live, now, trips, assignments, users, procs>>

(***************************************************************************)
(* The registry specification: the test fixture and a second route, then   *)
(* any sequence of registrations (buses, stops) and of requests to the     *)
(* handlers keyed by a bus code or a route, and location updates.          *)
(***************************************************************************)
\* The codes generate_otp draws in this specification.
OtpDraws == { FixtureOtp, Str5("Z", "Z", "Z", "Z", "Z") }

RegistryBusForms ==
    { BusForm("admin", "POST", Str2("B", "2"), Str1("S"), Str1("X"), Str1("1"), DecimalText(1000)),
      BusForm("admin", "POST", <<" ">>, Str1("S"), Str1("X"), Str1("1"), DecimalText(1000)),
      BusForm("admin", "POST", Str2("B", "2"), Str1("S"), Str1("X"), Str1("1"), BadDecimalText) }

\* A new stop with the order of S0, and a form add_stop refuses.
RegistryStopForms ==
    { StopForm("admin", "POST", Str1("1"), Str1("X"), Str1("0"), FloatText(2600), FloatText(0)),
      StopForm("admin", "POST", Str1("1"), <<" ">>, Str1("0"), FloatText(2600), FloatText(0)) }

\* Codes in a URL: the fixture bus's code as typed, the other code drawn, a
\* code one character short.
RegistryOtps == { TypedOtp, Str5("z", "z", "z", "z", "z"), <<"A", "B", "1", "2">> }

RegistryRouteIds == {1, 2, 3}

RegistryFareForms ==
    { FareForm("POST", TypedOtp, Str1("1"), Str1("5")),
      FareForm("POST", Str5("Z", "Z", "Z", "Z", "Z"), Str1("1"), Str1("5")) }

RegistryUpdateForms ==
    { FormFix(1, Place(49, 0), Absent),
      UpdateForm(1, "POST", "json_array", Absent, Absent, Absent, Absent, Absent),
      JsonFix(JsonBigInt, Absent, JsonNumber(49), Absent) }

RegistryInit == DbInit

RegisterBusStep ==
    \E form \in RegistryBusForms, otp \in OtpDraws : register_bus(form, otp)

RegistryAddStopStep ==
    \E f \in RegistryStopForms :
        add_stop(f.role, f.method, f.route_id, f.name, f.order, f.latitude, f.longitude)

ValidateBusOtpStep ==
    \/ \E otp \in RegistryOtps : validate_bus_otp("GET", Some(otp), None)
    \/ \E otp \in RegistryOtps \cup { <<>> } : validate_bus_otp("POST", None, Some(otp))
    \/ validate_bus_otp("POST", None, None)

GetStopsByOtpStep == \E otp \in RegistryOtps : get_stops_by_otp(otp)

GetRouteStopsStep == \E route_id \in RegistryRouteIds : get_route_stops(route_id)

RegistryFareStep ==
    \E f \in RegistryFareForms : calculate_fare(f.method, f.otp, f.source, f.destination)

RegistryTicketStep ==
    \E f \in RegistryFareForms : bus_ticket(f.method, f.otp, f.source, f.destination)

RegistryUpdateStep == \E req \in RegistryUpdateForms : update_bus_location(req)

RegistryNext ==
    \/ RegisterBusStep
    \/ RegistryAddStopStep
    \/ ValidateBusOtpStep
    \/ GetStopsByOtpStep
    \/ GetRouteStopsStep
    \/ RegistryFareStep
    \/ RegistryTicketStep
    \/ RegistryUpdateStep

SpecRegistry == RegistryInit /\ [][RegistryNext]_vars

(***************************************************************************)
(* C18: every stop listing (get_stops_by_otp, get_route_stops) is the      *)
(* route's stops ordered by order and then by stop id, as the sequence     *)
(* _route_path_distance_m and _route_remaining_distance_m walk: for given   *)
(* stops, stops of equal order included, every call returns this one       *)
(* sequence.                                                               *)
(***************************************************************************)
C18_ListingByOrderThenId ==
    (last.op \in {"get_stops_by_otp", "get_route_stops"} /\ last.status = 200) =>
        last.listing = Some(OrderedStops(RouteStops(Get(last.route))))

(***************************************************************************)
(* C19: every request to validate_bus_otp, get_stops_by_otp,               *)
(* calculate_fare, bus_ticket or update_bus_location ends in a success or  *)
(* in a failure that names its reason, none in an unhandled exception      *)
(* (HTTP 500), whatever buses and stops have been registered, the codes of *)
(* the buses drawn at random and not unique.                               *)
(***************************************************************************)
C19_NoUnhandledException ==
    /\ last.op \in {"validate_bus_otp", "get_stops_by_otp", "update_bus_location"} =>
          last.status # 500
    /\ last.op \in {"calculate_fare", "bus_ticket"} => last.outcome.status # 500

(***************************************************************************)
(* Driver trips: _driver_can_access_bus, start_trip, end_trip and          *)
(* driver_trip_summary.                                                    *)
(***************************************************************************)
User(username, role) == [username |-> username, role |-> role]

AssignmentRow(user, bus, start_time) ==
    [user |-> user, bus |-> bus, active |-> TRUE, start_time |-> start_time,
     end_time |-> None]

TripRow(bus, start_time, end_time) ==
    [bus |-> bus, start_time |-> start_time, end_time |-> end_time]

\* DriverRegistration rows (user, bus_otp): the older linkage of a driver to
\* a bus.
FixtureRegistrations == { [user |-> Str2("d", "2"), bus_otp |-> FixtureOtp] }

\* DriverBusAssignment.objects.filter(user=user, bus=bus, active=True,
\*                                    end_time__isnull=True).exists()
HasAssignment(user, bus) ==
    \E a \in assignments : /\ a.user = user.username /\ a.bus = bus
                           /\ a.active /\ a.end_time = None

\* The older linkages: a registration with the bus's code, or the bus's
\* operator_name being the username.
HasOlderLink(user, bus) ==
    \/ \E reg \in FixtureRegistrations : /\ reg.user = user.username
                                         /\ reg.bus_otp = buses[bus].otp_code
    \/ buses[bus].operator_name = user.username

\* _driver_can_access_bus: what it returns ...
_driver_can_access_bus(user, bus) ==
    \/ user.role = "admin"
    \/ HasAssignment(user, bus)
    \/ HasOlderLink(user, bus)

\* ... and the DriverBusAssignment table it leaves.
AssignmentsAfterAccess(user, bus) ==
    IF user.role # "admin" /\ ~HasAssignment(user, bus) /\ HasOlderLink(user, bus)
    THEN assignments \cup { AssignmentRow(user.username, bus, now) }
    ELSE assignments

TripIds == DOMAIN trips

\* A lookup that finds no open trip.
OpenTrip_None(bus) == None

\* BusTrip.objects.filter(bus=bus, end_time__isnull=True)
\*     .order_by('-start_time', '-id').first()
OpenTrip(bus) ==
    LET T == {i \in TripIds : trips[i].bus = bus /\ trips[i].end_time = None}
        Newer(i, j) == \/ trips[i].start_time > trips[j].start_time
                       \/ trips[i].start_time = trips[j].start_time /\ i > j
    IN  IF T = {} THEN None
        ELSE Some(CHOOSE i \in T : \A j \in T \ {i} : Newer(i, j))

\* What start_trip and end_trip answer: a redirect to the driver dashboard,
\* with an error message or none.
TripRedirect(op, user, bus_id, error) ==
    [op |-> op, user |-> user, bus_id |-> bus_id, status |-> 302, error |-> error]

start_trip(user, bus_id) ==
    LET open_trip == OpenTrip(bus_id)
        closed == IF open_trip = None THEN trips
                  ELSE [trips EXCEPT ![Get(open_trip)].end_time = Some(now)]
    IN  /\ IF bus_id \notin BusIds
           THEN /\ last' = TripRedirect("start_trip", user, bus_id, "Bus not found")
                /\ UNCHANGED <<buses, trips, assignments>>
           ELSE IF ~_driver_can_access_bus(user, bus_id)
           THEN /\ last' = TripRedirect("start_trip", user, bus_id,
                                        "You are not allowed to start this trip")
                /\ UNCHANGED <<buses, trips, assignments>>
           ELSE /\ Len(trips) < MaxTrips
                /\ assignments' = AssignmentsAfterAccess(user, bus_id)
                /\ trips' = Append(closed, TripRow(bus_id, now, None))
                /\ buses' = [buses EXCEPT ![bus_id].trip_active = TRUE,
                                          ![bus_id].trip_start_time = Some(now)]
                /\ last' = TripRedirect("start_trip", user, bus_id, "")
        /\ UNCHANGED <<fareIn, fareOut, routes, stops, tickets, live, now, users, procs>>

end_trip(user, bus_id) ==
    LET open_trip == OpenTrip(bus_id)
        bus == buses[bus_id]
        backfill == open_trip = None /\ bus.trip_active
        start_time == IF bus.trip_start_time # None THEN Get(bus.trip_start_time) ELSE now
    IN  /\ IF bus_id \notin BusIds
           THEN /\ last' = TripRedirect("end_trip", user, bus_id, "Bus not found")
                /\ UNCHANGED <<buses, trips, assignments>>
           ELSE IF ~_driver_can_access_bus(user, bus_id)
           THEN /\ last' = TripRedirect("end_trip", user, bus_id,
                                        "You are not allowed to end this trip")
                /\ UNCHANGED <<buses, trips, assignments>>
           ELSE /\ backfill => Len(trips) < MaxTrips
                /\ assignments' = AssignmentsAfterAccess(user, bus_id)
                /\ trips' = IF open_trip # None
                            THEN [trips EXCEPT ![Get(open_trip)].end_time = Some(now)]
                            ELSE IF backfill
                            THEN Append(trips, TripRow(bus_id, start_time, Some(now)))
                            ELSE trips
                /\ buses' = [buses EXCEPT
                               ![bus_id].trip_active = FALSE,
                               ![bus_id].trip_start_time =
                                   IF backfill THEN Some(start_time) ELSE @]
                /\ last' = TripRedirect("end_trip", user, bus_id, "")
        /\ UNCHANGED <<fareIn, fareOut, routes, stops, tickets, live, now, users, procs>>

\* The tickets sold after start_time only.
TicketsSince_After(bus, start_time) ==
    {i \in DOMAIN tickets : tickets[i].bus = bus /\ tickets[i].created_at > start_time}

\* Ticket.objects.filter(bus=bus, created_at__gte=start_time)
TicketsSince(bus, start_time) ==
    {i \in DOMAIN tickets : tickets[i].bus = bus /\ tickets[i].created_at >= start_time}

\* tickets_qs.aggregate(Sum('fare'))['fare__sum'] or 0, in hundredths
RECURSIVE FareSumOver(_, _, _)
FareSumOver(T, lo, hi) ==
    IF lo > hi THEN 0
    ELSE IF lo = hi THEN (IF lo \in T THEN tickets[lo].fare ELSE 0)
    ELSE LET mid == (lo + hi) \div 2
         IN  FareSumOver(T, lo, mid) + FareSumOver(T, mid + 1, hi)

FareSum(T) == FareSumOver(T, 1, Len(tickets))

\* The ways of leaving out the k last rows of T ordered by -created_at.
RECURSIVE DropOldest(_, _)
DropOldest(T, k) ==
    IF k = 0 THEN { T }
    ELSE LET oldest == {i \in T : \A j \in T : tickets[i].created_at <= tickets[j].created_at}
         IN  UNION { DropOldest(T \ {i}, k - 1) : i \in oldest }

SummaryLimit == 200

\* tickets_qs.order_by('-created_at')[:limit], as the sets of rows the
\* database may return
FirstRows(T, limit) ==
    IF Cardinality(T) <= limit THEN { T } ELSE DropOldest(T, Cardinality(T) - limit)

\* What driver_trip_summary answered.
Summary(user, bus_id, status, error, trip_active, listed, total_amount) ==
    [op |-> "driver_trip_summary", user |-> user, bus_id |-> bus_id,
     status |-> status, error |-> error, trip_active |-> trip_active,
     tickets |-> listed, total_amount |-> total_amount]

driver_trip_summary(user, bus_id) ==
    LET bus == buses[bus_id]
        found == OpenTrip(bus_id)
        backfill == bus.trip_active /\ found = None
        start_time == IF bus.trip_start_time # None THEN Get(bus.trip_start_time) ELSE now
        trip_start == IF backfill THEN start_time ELSE trips[Get(found)].start_time
        tickets_qs == TicketsSince(bus_id, trip_start)
    IN  /\ IF bus_id \notin BusIds
           THEN /\ last' = Summary(user, bus_id, 404, "Bus not found", None, None, None)
                /\ UNCHANGED <<buses, trips, assignments>>
           ELSE IF ~_driver_can_access_bus(user, bus_id)
           THEN /\ last' = Summary(user, bus_id, 403, "Forbidden", None, None, None)
                /\ UNCHANGED <<buses, trips, assignments>>
           ELSE /\ backfill => Len(trips) < MaxTrips
                /\ assignments' = AssignmentsAfterAccess(user, bus_id)
                /\ buses' = IF backfill
                            THEN [buses EXCEPT ![bus_id].trip_start_time = Some(start_time)]
                            ELSE buses
                /\ trips' = IF backfill
                            THEN Append(trips, TripRow(bus_id, start_time, None))
                            ELSE trips
                /\ IF ~bus.trip_active \/ (found = None /\ ~backfill)
                   THEN last' = Summary(user, bus_id, 200, "", Some(FALSE), Some({}), Some(0))
                   ELSE \E listed \in FirstRows(tickets_qs, SummaryLimit) :
                           last' = Summary(user, bus_id, 200, "", Some(TRUE), Some(listed),
                                           Some(FareSum(tickets_qs)))
        /\ UNCHANGED <<fareIn, fareOut, routes, stops, tickets, live, now, users, procs>>

(***************************************************************************)
(* The trip specification: the fixture bus with a driver assigned, its     *)
(* trip flags as start_trip leaves them or as the older logic left them    *)
(* (trip_active set, no BusTrip row), tickets sold before, and then any    *)
(* sequence of start_trip, end_trip, driver_trip_summary and bus_ticket    *)
(* requests as the clock advances.                                         *)
(***************************************************************************)
Admin == User(<<"a">>, "admin")
Driver1 == User(Str2("d", "1"), "driver")     \* has a DriverBusAssignment
Driver2 == User(Str2("d", "2"), "driver")     \* has a DriverRegistration
Driver3 == User(Str2("d", "3"), "driver")     \* has no link to the bus
TripUsers == { Admin, Driver1, Driver2, Driver3 }

TenMinutes == 10 * TicksPerMinute

\* The bus with the flags of a trip started ten minutes ago, or at an
\* unrecorded time, and no BusTrip row.
FlaggedBus(trip_start_time) ==
    [BusRow(1, FixtureOtp) EXCEPT !.trip_active = TRUE,
                                  !.trip_start_time = trip_start_time]

SoldAt(created_at) == TicketRow(1, Str2("S", "0"), Str2("S", "4"), 1100, created_at)

\* One more ticket than a summary lists, sold one tick apart in the ten
\* minutes before.
CrowdedTickets == [i \in 1..(SummaryLimit + 1) |-> SoldAt(i - SummaryLimit - 2)]

TripLayout(busRows, ticketRows) == [buses |-> busRows, tickets |-> ticketRows]

TripTables ==
    { TripLayout(FixtureBuses, <<>>),
      TripLayout(<< FlaggedBus(None) >>, <<>>),
      TripLayout(<< FlaggedBus(Some(-TenMinutes)) >>, << SoldAt(-TenMinutes) >>),
      TripLayout(<< FlaggedBus(Some(-TenMinutes)) >>, << SoldAt(-TenMinutes - 1) >>),
      TripLayout(<< FlaggedBus(Some(-TenMinutes)) >>, CrowdedTickets) }

TripInit ==
    /\ fareIn = NotANumber
    /\ fareOut = None
    /\ routes = {1, 2}
    /\ stops = FixtureStops
    /\ \E t \in TripTables : buses = t.buses /\ tickets = t.tickets
    /\ live = <<>>
    /\ now = 0
    /\ last = Idle
    /\ trips = <<>>
    /\ assignments = { AssignmentRow(Driver1.username, 1, 0) }
    /\ users = <<>>
    /\ procs = <<>>

TripRequest(user, bus_id) == [user |-> user, bus_id |-> bus_id]

\* Starting and ending a trip: the assigned driver, and a driver with no
\* link to the bus.
TripForms == { TripRequest(Driver1, 1), TripRequest(Driver3, 1) }

\* Asking for the summary: every user for the bus, and a bus that does not
\* exist.
SummaryForms ==
    { TripRequest(user, 1) : user \in TripUsers } \cup { TripRequest(Driver1, 2) }

StartTripStep == \E req \in TripForms : start_trip(req.user, req.bus_id)

EndTripStep == \E req \in TripForms : end_trip(req.user, req.bus_id)

DriverTripSummaryStep ==
    \E req \in SummaryForms : driver_trip_summary(req.user, req.bus_id)

\* The instants of the trip specification: the start, and ten minutes on.
TripInstants == <<0, TenMinutes>>

TripTick ==
    /\ \E k \in DOMAIN TripInstants :
          /\ TripInstants[k] = now
          /\ k < Len(TripInstants)
          /\ now' = TripInstants[k + 1]
    /\ UNCHANGED <<fareIn, fareOut, routes, stops, buses, tickets, live, last, trips, assignments, users, procs>>

TripTicketStep == bus_ticket("POST", TypedOtp, Str1("1"), Str1("5"))

TripNext ==
    \/ StartTripStep
    \/ EndTripStep
    \/ DriverTripSummaryStep
    \/ TripTicketStep
    \/ TripTick

SpecTrip == TripInit /\ [][TripNext]_vars

\* The open BusTrip rows of a bus in a BusTrip table.
OpenTripsIn(table, bus) ==
    {i \in DOMAIN table : table[i].bus = bus /\ table[i].end_time = None}

\* The step is driver_trip_summary answering a user it lets through, for
\* an existing bus.
SummaryAnswered ==
    /\ last'.op = "driver_trip_summary"
    /\ now' = now
    /\ last'.bus_id \in BusIds
    /\ _driver_can_access_bus(last'.user, last'.bus_id)

\* The step finds the bus's trip flag set and no open BusTrip row.
Backfilling ==
    /\ SummaryAnswered
    /\ buses[last'.bus_id].trip_active
    /\ OpenTripsIn(trips, last'.bus_id) = {}

\* The step leaves the bus one open BusTrip row, a new one, starting at
\* the bus's trip_start_time (the recorded one, if one was recorded).
BackfilledOne ==
    LET bus_id == last'.bus_id
    IN  /\ Len(trips') = Len(trips) + 1
        /\ SubSeq(trips', 1, Len(trips)) = trips
        /\ OpenTripsIn(trips', bus_id) = { Len(trips') }
        /\ Some(trips'[Len(trips')].start_time) = buses'[bus_id].trip_start_time
        /\ buses[bus_id].trip_start_time # None =>
              buses'[bus_id].trip_start_time = buses[bus_id].trip_start_time

\* The bus's tickets created at or after the start of its open trip.
DueTickets ==
    LET bus_id == last'.bus_id
    IN  {t \in DOMAIN tickets :
            /\ tickets[t].bus = bus_id
            /\ \A i \in OpenTripsIn(trips', bus_id) :
                  tickets[t].created_at >= trips'[i].start_time}

(***************************************************************************)
(* C20, as stated: when a bus has trip_active set and no open BusTrip,     *)
(* driver_trip_summary by an authorized user creates exactly one open      *)
(* BusTrip for the bus, starting at the bus's trip_start_time, and reports *)
(* trip_active true with every ticket of the bus created at or after that  *)
(* start; a call that finds an open BusTrip creates none.                  *)
(***************************************************************************)
C20_BackfillAsStated ==
    [][ /\ Backfilling =>
              /\ BackfilledOne
              /\ last'.status = 200
              /\ last'.trip_active = Some(TRUE)
              /\ last'.tickets = Some(DueTickets)
        /\ (SummaryAnswered /\ OpenTripsIn(trips, last'.bus_id) # {}) =>
              trips' = trips ]_vars

(***************************************************************************)
(* C20, amended: as stated, but the tickets reported are all the tickets   *)
(* of the bus created at or after that start when they are at most 200,    *)
(* and otherwise 200 of them, none created before a ticket left out;       *)
(* total_amount is the sum of the fares of all of them.                    *)
(***************************************************************************)
C20_Backfill ==
    [][ /\ Backfilling =>
              /\ BackfilledOne
              /\ last'.status = 200
              /\ last'.trip_active = Some(TRUE)
              /\ last'.tickets # None
              /\ LET listed == Get(last'.tickets)
                 IN  /\ listed \subseteq DueTickets
                     /\ Cardinality(listed) =
                           IF Cardinality(DueTickets) <= SummaryLimit
                           THEN Cardinality(DueTickets) ELSE SummaryLimit
                     /\ \A t \in listed : \A u \in DueTickets \ listed :
                           tickets[t].created_at >= tickets[u].created_at
              /\ last'.total_amount = Some(FareSum(DueTickets))
        /\ (SummaryAnswered /\ OpenTripsIn(trips, last'.bus_id) # {}) =>
              trips' = trips ]_vars

\* The summary has created the open BusTrip of the trip flagged ten minutes
\* ago and reports the ticket sold at that very instant.
C20_Witness ==
    /\ last.op = "driver_trip_summary"
    /\ last.status = 200
    /\ last.trip_active = Some(TRUE)
    /\ last.tickets = Some({1})
    /\ Len(tickets) = 1
    /\ tickets[1].created_at = -TenMinutes
    /\ trips = << TripRow(1, -TenMinutes, None) >>

(***************************************************************************)
(* register_view.                                                          *)
(***************************************************************************)
UserRow(username, password, role) ==
    [username |-> username, password |-> password, role |-> role]

\* A character that is a compatibility form of other characters: the
\* ligature U+FB01, NFKC-equivalent to "f" "i".
Ligature == "U+FB01"

\* User.normalize_username, applied by create_user:
\* unicodedata.normalize('NFKC', username)
RECURSIVE normalize_username(_)
normalize_username(s) ==
    IF s = <<>> THEN <<>>
    ELSE (IF Head(s) = Ligature THEN <<"f", "i">> ELSE <<Head(s)>>)
         \o normalize_username(Tail(s))

\* User.objects.filter(username=username).exists()
UserExists(username) == \E i \in DOMAIN users : users[i].username = username

\* What register_view answered: the form again (status 200) with an error
\* or none, a redirect to 'login' (302), or an exception nothing handles
\* (500).
Registered(method, username, password, confirm_password, status, error) ==
    [op |-> "register_view", method |-> method, username |-> username,
     password |-> password, confirm_password |-> confirm_password,
     status |-> status, error |-> error]

MinPasswordLen == 6

\* register_view; a missing field is the empty text (request.POST.get(...)
\* or '').  create_user normalizes the username and inserts the row, and the
\* unique username column refuses a second row of one username
\* (IntegrityError).
register_view(method, username_raw, password, confirm_password) ==
    LET username == Strip(username_raw)
        stored == normalize_username(username)
        Reply(status, error) ==
            /\ last' = Registered(method, username_raw, password, confirm_password,
                                  status, error)
            /\ UNCHANGED users
    IN  /\ IF method # "POST" THEN Reply(200, "")
           ELSE IF username = <<>> \/ password = <<>> \/ confirm_password = <<>>
                THEN Reply(200, "Username and password are required")
           ELSE IF Len(password) < MinPasswordLen
                THEN Reply(200, "Password must be at least 6 characters")
           ELSE IF password # confirm_password THEN Reply(200, "Passwords do not match")
           ELSE IF UserExists(username) THEN Reply(200, "Username already exists")
           ELSE IF UserExists(stored) THEN Reply(500, "IntegrityError")
           ELSE /\ Len(users) < MaxUsers
                /\ users' = Append(users, UserRow(stored, password, "passenger"))
                /\ last' = Registered(method, username_raw, password, confirm_password,
                                      302, "")
        /\ UNCHANGED <<fareIn, fareOut, routes, stops, buses, tickets, live, now, trips, assignments, procs>>

(***************************************************************************)
(* The registration specification: no users, then any sequence of          *)
(* register_view requests.                                                 *)
(***************************************************************************)
RegisterUsernames ==
    { <<>>, <<" ">>, Str2("u", "1"), <<" ", "u", "1", " ">>, Str2("f", "i"), <<Ligature>> }

\* Passwords: none, one of five characters, two of six.
RegisterPasswords ==
    { <<>>, <<"p", "w", "1", "2", "3">>, <<"p", "w", "1", "2", "3", "4">>,
      <<"p", "w", "4", "3", "2", "1">> }

RegisterInit ==
    /\ fareIn = NotANumber
    /\ fareOut = None
    /\ routes = {}
    /\ stops = <<>>
    /\ buses = <<>>
    /\ tickets = <<>>
    /\ live = <<>>
    /\ now = 0
    /\ last = Idle
    /\ trips = <<>>
    /\ assignments = {}
    /\ users = <<>>
    /\ procs = <<>>

RegisterViewStep ==
    \/ \E username \in RegisterUsernames, password, confirm_password \in RegisterPasswords :
          register_view("POST", username, password, confirm_password)
    \/ register_view("GET", <<>>, <<>>, <<>>)

RegisterNext == RegisterViewStep

SpecRegister == RegisterInit /\ [][RegisterNext]_vars

\* The step is register_view answering a POST.
RegisterAnswered == last'.op = "register_view" /\ last'.method = "POST"

\* What the registration form asks for.
Acceptable(req) ==
    /\ Strip(req.username) # <<>>
    /\ req.password # <<>>
    /\ req.confirm_password # <<>>
    /\ Len(req.password) >= MinPasswordLen
    /\ req.password = req.confirm_password
    /\ ~UserExists(Strip(req.username))

(***************************************************************************)
(* C21: register_view creates a user only when username, password and      *)
(* confirmation are non-empty, the password has at least 6 characters,     *)
(* the two passwords match and no user has the username; in every other    *)
(* case the users stay as they are and the form is returned with an        *)
(* error; usernames stay unique.                                           *)
(***************************************************************************)
C21_RegisterValidation ==
    [][ RegisterAnswered =>
           /\ IF Acceptable(last')
              THEN /\ last'.status = 302
                   /\ Len(users') = Len(users) + 1
                   /\ SubSeq(users', 1, Len(users)) = users
              ELSE /\ users' = users
                   /\ last'.status = 200
                   /\ last'.error # ""
           /\ \A i, j \in DOMAIN users' :
                 users'[i].username = users'[j].username => i = j ]_vars

(***************************************************************************)
(* The admin forms: add_stop and register_bus on the fixture tables, with  *)
(* a form for every way of being invalid and for every requesting role.    *)
(***************************************************************************)
AdminStop(role, route_id, name, order, latitude, longitude) ==
    StopForm(role, "POST", route_id, name, order, latitude, longitude)

AdminStopForms ==
    { AdminStop(role, Str1("1"), Str1("X"), Str1("0"), FloatText(2600), FloatText(0)) :
        role \in {"admin", "driver", "passenger"} }
    \cup
    { AdminStop("admin", route_id, Str1("X"), Str1("0"), FloatText(2600), FloatText(0)) :
        route_id \in { <<>>, Str1("0"), Str1("2"), Str1("3"), Str1("x") } }
    \cup
    { AdminStop("admin", Str1("1"), <<" ">>, Str1("0"), FloatText(2600), FloatText(0)) }
    \cup
    { AdminStop("admin", Str1("1"), Str1("X"), order, FloatText(2600), FloatText(0)) :
        order \in { <<>>, Str2("-", "1"), Str1("x"), Str1("7") } }
    \cup
    { AdminStop("admin", Str1("1"), Str1("X"), Str1("0"), latitude, FloatText(0)) :
        latitude \in { FloatText(QuarterArc), FloatText(QuarterArc + 1),
                       FloatText(-QuarterArc - 1), BadFloatText, NaNFloatText } }
    \cup
    { AdminStop("admin", Str1("1"), Str1("X"), Str1("0"), FloatText(2600), longitude) :
        longitude \in { FloatText(-HalfArc), FloatText(HalfArc + 1),
                        FloatText(-HalfArc - 1), BadFloatText, NaNFloatText } }

AdminBus(role, vehicle_number, operator_type, operator_name, route_id, base_fare) ==
    BusForm(role, "POST", vehicle_number, operator_type, operator_name, route_id, base_fare)

AdminBusForms ==
    { AdminBus(role, Str2("B", "2"), Str1("S"), Str1("X"), Str1("1"), DecimalText(1000)) :
        role \in {"admin", "driver", "passenger"} }
    \cup
    { AdminBus("admin", <<" ">>, Str1("S"), Str1("X"), Str1("1"), DecimalText(1000)),
      AdminBus("admin", Str2("B", "2"), <<>>, Str1("X"), Str1("1"), DecimalText(1000)),
      AdminBus("admin", Str2("B", "2"), Str1("S"), <<" ">>, Str1("1"), DecimalText(1000)) }
    \cup
    { AdminBus("admin", Str2("B", "2"), Str1("S"), Str1("X"), route_id, DecimalText(1000)) :
        route_id \in { <<>>, Str1("3") } }
    \cup
    { AdminBus("admin", Str2("B", "2"), Str1("S"), Str1("X"), Str1("1"), base_fare) :
        base_fare \in { DecimalText(MinBaseFare), DecimalText(0), DecimalText(-100),
                        BadDecimalText, NaNDecimalText, InfDecimalText } }

AdminInit == DbInit

AdminAddStopStep ==
    \E f \in AdminStopForms :
        add_stop(f.role, f.method, f.route_id, f.name, f.order, f.latitude, f.longitude)

AdminRegisterBusStep ==
    \E form \in AdminBusForms, otp \in OtpDraws : register_bus(form, otp)

AdminNext == AdminAddStopStep \/ AdminRegisterBusStep

SpecAdmin == AdminInit /\ [][AdminNext]_vars

\* The text names a route of the table.
NamesRoute(text) ==
    LET i == ParseInt(Strip(text)) IN i # None /\ Get(i) \in routes

\* The field is a number between lo and hi.
InRange(field, lo, hi) == field.kind = "num" /\ lo <= field.v /\ field.v <= hi

\* A stop form add_stop is to accept, and a bus form register_bus is to.
ValidStop(f) ==
    /\ f.role = "admin"
    /\ NamesRoute(f.route_id)
    /\ Strip(f.name) # <<>>
    /\ LET i == ParseInt(Strip(f.order)) IN i # None /\ Get(i) >= 0
    /\ InRange(f.latitude, -QuarterArc, QuarterArc)
    /\ InRange(f.longitude, -HalfArc, HalfArc)

ValidBus(f) ==
    /\ f.role = "admin"
    /\ Strip(f.vehicle_number) # <<>>
    /\ Strip(f.operator_type) # <<>>
    /\ Strip(f.operator_name) # <<>>
    /\ NamesRoute(f.route_id)
    /\ f.base_fare.kind = "num" /\ f.base_fare.v >= MinBaseFare

(***************************************************************************)
(* C22: add_stop creates no Stop when the route id is missing or unknown,  *)
(* the name is empty, the order is no integer >= 0 or the latitude or      *)
(* longitude is outside [-90, 90] or [-180, 180]; register_bus creates no  *)
(* Bus when a required field is missing, the route is unknown or the base  *)
(* fare is no decimal >= 0.01; neither creates anything for a user who is  *)
(* not an admin.                                                           *)
(***************************************************************************)
C22_InvalidInputCreatesNothing ==
    [][ /\ \A f \in AdminStopForms :
              ( /\ ~ValidStop(f)
                /\ add_stop(f.role, f.method, f.route_id, f.name, f.order,
                            f.latitude, f.longitude) )
              => stops' = stops /\ buses' = buses
        /\ \A f \in AdminBusForms, otp \in OtpDraws :
              (~ValidBus(f) /\ register_bus(f, otp))
              => stops' = stops /\ buses' = buses ]_vars

(***************************************************************************)
(* Requests in flight.  A handler runs its queries one at a time and       *)
(* nothing (no transaction.atomic, no select_for_update, no unique         *)
(* constraint on BusLiveLocation.bus) keeps another request's queries      *)
(* from running between two of them.  procs holds a record per request:    *)
(* pc names the query the request runs next, the other fields are the      *)
(* handler's local variables.                                              *)
(***************************************************************************)
MaxProcs == 2

ProcIds == DOMAIN procs

AllDone == procs # <<>> /\ \A p \in ProcIds : procs[p].pc = "done"

(***************************************************************************)
(* update_bus_location, query by query, for requests that pass its         *)
(* validation: Bus.objects.filter(id=bus_id).first(); the latest           *)
(* BusLiveLocation of the bus; loc.save or objects.create; the stops of    *)
(* the route and bus.save(update_fields=['current_stop']).                 *)
(***************************************************************************)
Ingest(req) ==
    [op |-> "update_bus_location", req |-> req, pc |-> "bus",
     bus |-> None, loc |-> None, prev |-> None]

\* Fixes at S0, 49 m up the line and at S4, posted as forms without a speed.
IngestFixes == { FormFix(1, Place(0, 0), Absent), FormFix(1, Place(49, 0), Absent),
                 FormFix(1, Place(3403, 0), Absent) }

IngestLat(req) == PyFloat(PyOr(req.lat, req.latitude)).value
IngestLng(req) == PyFloat(PyOr(req.lng, req.longitude)).value

IngestBegin ==
    /\ Len(procs) < MaxProcs
    /\ \E req \in IngestFixes : procs' = Append(procs, Ingest(req))
    /\ UNCHANGED <<fareIn, fareOut, routes, stops, buses, tickets, live, now, last, trips, assignments, users>>

\* bus = Bus.objects.filter(id=bus_id).first()
IngestBus(p) ==
    /\ procs[p].op = "update_bus_location" /\ procs[p].pc = "bus"
    /\ procs' = [procs EXCEPT ![p].bus = Some(buses[procs[p].req.bus_id]),
                              ![p].pc = "first"]
    /\ UNCHANGED <<fareIn, fareOut, routes, stops, buses, tickets, live, now, last, trips, assignments, users>>

\* loc = BusLiveLocation.objects.filter(bus=bus).order_by(...).first()
IngestFirst(p) ==
    LET loc == LatestLive(procs[p].req.bus_id)
    IN  /\ procs[p].op = "update_bus_location" /\ procs[p].pc = "first"
        /\ procs' = [procs EXCEPT ![p].loc = loc,
                                  ![p].prev = IF loc = None THEN None
                                              ELSE Some(live[Get(loc)]),
                                  ![p].pc = "save"]
        /\ UNCHANGED <<fareIn, fareOut, routes, stops, buses, tickets, live, now, last, trips, assignments, users>>

\* loc.save(update_fields=[...]) on the row read, or objects.create(...)
IngestSave(p) ==
    LET req == procs[p].req
        la == IngestLat(req)
        ln == IngestLng(req)
        prev == procs[p].prev
        est == IF prev # None
               THEN _estimate_speed_mps(Some(Get(prev).latitude), Some(Get(prev).longitude),
                                        Some(Get(prev).updated_at), la, ln, now)
               ELSE Zero
    IN  /\ procs[p].op = "update_bus_location" /\ procs[p].pc = "save"
        /\ live' = SaveLive(live, procs[p].loc, LiveRow(req.bus_id, la, ln, est, now))
        /\ procs' = [procs EXCEPT ![p].pc = "snap"]
        /\ UNCHANGED <<fareIn, fareOut, routes, stops, buses, tickets, now, last, trips, assignments, users>>

\* The loop over the route's stops and bus.save(update_fields=['current_stop'])
IngestSnap(p) ==
    LET req == procs[p].req
        bus == Get(procs[p].bus)
        la == IngestLat(req)
        ln == IngestLng(req)
        nearest_stop == NearestStop(RouteStops(bus.route), la, ln)
        snap == /\ nearest_stop # None
                /\ NearEnough(FixDistance(la, ln, Get(nearest_stop)))
                /\ bus.current_stop # Some(stops[Get(nearest_stop)].name)
    IN  /\ procs[p].op = "update_bus_location" /\ procs[p].pc = "snap"
        /\ buses' = IF snap
                    THEN [buses EXCEPT ![req.bus_id].current_stop =
                              Some(stops[Get(nearest_stop)].name)]
                    ELSE buses
        /\ last' = Updated(req, 200, "", snap)
        /\ procs' = [procs EXCEPT ![p].pc = "done"]
        /\ UNCHANGED <<fareIn, fareOut, routes, stops, tickets, live, now, trips, assignments, users>>

\* The vehicle has no reading yet, or one taken at S4.
IngestInit ==
    /\ fareIn = NotANumber
    /\ fareOut = None
    /\ routes = {1, 2}
    /\ stops = FixtureStops
    /\ buses = FixtureBuses
    /\ tickets = <<>>
    /\ live \in { <<>>, << LiveRow(1, 3403, 0, Zero, 0) >> }
    /\ trips = <<>>
    /\ assignments = {}
    /\ users = <<>>
    /\ procs = <<>>
    /\ now = 0
    /\ last = Idle

IngestBusStep == \E p \in ProcIds : IngestBus(p)
IngestFirstStep == \E p \in ProcIds : IngestFirst(p)
IngestSaveStep == \E p \in ProcIds : IngestSave(p)
IngestSnapStep == \E p \in ProcIds : IngestSnap(p)

IngestNext ==
    \/ IngestBegin
    \/ IngestBusStep
    \/ IngestFirstStep
    \/ IngestSaveStep
    \/ IngestSnapStep

SpecIngest == IngestInit /\ [][IngestNext]_vars

(***************************************************************************)
(* C23: when two or more ingests for one vehicle have run, in whatever     *)
(* interleaving (two first ingests included), the vehicle has a single     *)
(* live-location record, and it holds the coordinates of one of the        *)
(* fixes: no interleaving leaves two records.                              *)
(***************************************************************************)
C23_SingleLiveRecord ==
    (AllDone /\ Len(procs) >= 2) =>
        /\ Cardinality(LiveOf(1)) = 1
        /\ \A i \in LiveOf(1) :
              \E p \in ProcIds : /\ live[i].latitude = IngestLat(procs[p].req)
                                 /\ live[i].longitude = IngestLng(procs[p].req)

(***************************************************************************)
(* The driver's shift: assign_driver_bus (admin), driver_dashboard and     *)
(* driver_trip_details, beside start_trip, end_trip and                    *)
(* driver_trip_summary.                                                    *)
(***************************************************************************)
\* DriverBusAssignment.objects.filter(user=user, active=True,
\*                                    end_time__isnull=True)
ActiveAssignments(table, username) ==
    {a \in table : a.user = username /\ a.active /\ a.end_time = None}

Assigned(user, driver_id, bus_id, error) ==
    [op |-> "assign_driver_bus", user |-> user, driver_id |-> driver_id,
     bus_id |-> bus_id, status |-> 302, error |-> error]

\* assign_driver_bus: driver_id is the id of a row of users.
assign_driver_bus(user, method, driver_id_raw, bus_id_raw) ==
    LET driver_id == _to_int(driver_id_raw, 1)
        bus_id == _to_int(bus_id_raw, 1)
        driver == users[Get(driver_id)]
        ended == { IF a \in ActiveAssignments(assignments, driver.username)
                   THEN [a EXCEPT !.active = FALSE, !.end_time = Some(now)]
                   ELSE a : a \in assignments }
        Refuse(error) == /\ last' = Assigned(user, driver_id, bus_id, error)
                         /\ UNCHANGED assignments
    IN  /\ IF user.role # "admin" THEN Refuse("Admin only")
           ELSE IF method # "POST" THEN Refuse("")
           ELSE IF driver_id = None \/ bus_id = None THEN Refuse("Select a driver and a bus")
           ELSE IF Get(driver_id) \notin DOMAIN users \/ driver.role # "driver"
                THEN Refuse("Driver not found")
           ELSE IF Get(bus_id) \notin BusIds THEN Refuse("Bus not found")
           ELSE /\ assignments' = ended \cup { AssignmentRow(driver.username, Get(bus_id), now) }
                /\ last' = Assigned(user, driver_id, bus_id, "")
        /\ UNCHANGED <<fareIn, fareOut, routes, stops, buses, tickets, live, now, trips, users, procs>>

\* Bus.objects.filter(operator_name=request.user.username).first()
FirstBusByOperator(username) ==
    LET B == {b \in BusIds : buses[b].operator_name = username}
    IN  IF B = {} THEN None ELSE Some(CHOOSE b \in B : \A c \in B : b <= c)

\* What driver_dashboard rendered.
Dashboard(user, bus, active_trip, listed, total_amount) ==
    [op |-> "driver_dashboard", user |-> user, status |-> 200, bus |-> bus,
     active_trip |-> active_trip, tickets |-> listed, total_amount |-> total_amount]

\* driver_dashboard: the bus of the latest active assignment (of several
\* with one start_time, the one of highest id: any of them here), or the
\* bus of an older linkage, for which it creates an assignment.
driver_dashboard(user) ==
    LET mine == ActiveAssignments(assignments, user.username)
        latest == {a \in mine : \A b \in mine : b.start_time <= a.start_time}
        regs == {reg \in FixtureRegistrations : reg.user = user.username}
        reg_bus == IF regs = {} THEN None
                   ELSE FirstBusByOtp((CHOOSE reg \in regs : TRUE).bus_otp)
        older == IF reg_bus # None THEN reg_bus ELSE FirstBusByOperator(user.username)
    IN  /\ \E chosen \in (IF mine = {} THEN { older } ELSE { Some(a.bus) : a \in latest }) :
              IF chosen = None
              THEN /\ last' = Dashboard(user, None, None, {}, 0)
                   /\ UNCHANGED <<buses, trips, assignments>>
              ELSE LET bus_id == Get(chosen)
                       bus == buses[bus_id]
                       found == OpenTrip(bus_id)
                       backfill == bus.trip_active /\ found = None
                       start_time == IF bus.trip_start_time # None
                                     THEN Get(bus.trip_start_time) ELSE now
                       trips_after == IF backfill
                                      THEN Append(trips, TripRow(bus_id, start_time, None))
                                      ELSE trips
                       active_trip == IF backfill THEN Some(Len(trips_after)) ELSE found
                       counted == bus.trip_active /\ active_trip # None
                       tickets_qs == IF counted
                                     THEN TicketsSince(bus_id, trips_after[Get(active_trip)].start_time)
                                     ELSE {}
                   IN  /\ backfill => Len(trips) < MaxTrips
                       /\ assignments' = IF mine = {}
                                         THEN assignments \cup
                                              { AssignmentRow(user.username, bus_id, now) }
                                         ELSE assignments
                       /\ buses' = IF backfill
                                   THEN [buses EXCEPT ![bus_id].trip_start_time = Some(start_time)]
                                   ELSE buses
                       /\ trips' = trips_after
                       /\ last' = Dashboard(user, chosen, active_trip, tickets_qs,
                                            FareSum(tickets_qs))
        /\ UNCHANGED <<fareIn, fareOut, routes, stops, tickets, live, now, users, procs>>

\* The tickets from start_time on, whatever the end.
TicketsBetween_Since(bus, start_time, end_time) ==
    {i \in DOMAIN tickets : tickets[i].bus = bus /\ tickets[i].created_at >= start_time}

\* Ticket.objects.filter(bus=bus, created_at__gte=start_time,
\*                       created_at__lte=end_time)
TicketsBetween(bus, start_time, end_time) ==
    {i \in DOMAIN tickets : /\ tickets[i].bus = bus
                            /\ tickets[i].created_at >= start_time
                            /\ tickets[i].created_at <= end_time}

DetailsLimit == 500

\* What driver_trip_details answered.
Details(user, trip_id, status, error, listed, total_amount) ==
    [op |-> "driver_trip_details", user |-> user, trip_id |-> trip_id,
     status |-> status, error |-> error, tickets |-> listed,
     total_amount |-> total_amount]

driver_trip_details(user, trip_id) ==
    LET trip == trips[trip_id]
        end_time == IF trip.end_time # None THEN Get(trip.end_time) ELSE now
        tickets_qs == TicketsBetween(trip.bus, trip.start_time, end_time)
    IN  /\ IF trip_id \notin TripIds
           THEN /\ last' = Details(user, trip_id, 404, "Trip not found", {}, 0)
                /\ UNCHANGED assignments
           ELSE IF ~_driver_can_access_bus(user, trip.bus)
           THEN /\ last' = Details(user, trip_id, 403, "Forbidden", {}, 0)
                /\ UNCHANGED assignments
           ELSE /\ assignments' = AssignmentsAfterAccess(user, trip.bus)
                /\ \E listed \in FirstRows(tickets_qs, DetailsLimit) :
                      last' = Details(user, trip_id, 200, "", listed, FareSum(tickets_qs))
        /\ UNCHANGED <<fareIn, fareOut, routes, stops, buses, tickets, live, now, trips, users, procs>>

(***************************************************************************)
(* The shift specification: two buses that have never run a trip, the      *)
(* second one operated under the name of driver d1; driver d2 registered   *)
(* with the code of the first; no assignment yet.  Then any sequence of    *)
(* requests of the admin and the drivers as the clock advances.            *)
(***************************************************************************)
OtherOtp == Str5("Z", "Z", "Z", "Z", "Z")

ShiftBuses ==
    << BusRow(1, FixtureOtp),
       [BusRow(1, OtherOtp) EXCEPT !.operator_name = Driver1.username] >>

\* The rows of the users table: the admin has id 1, d1 id 2, d2 id 3.
ShiftUsers ==
    << UserRow(Admin.username, <<>>, "admin"),
       UserRow(Driver1.username, <<>>, "driver"),
       UserRow(Driver2.username, <<>>, "driver") >>

ShiftInit ==
    /\ fareIn = NotANumber
    /\ fareOut = None
    /\ routes = {1, 2}
    /\ stops = FixtureStops
    /\ buses = ShiftBuses
    /\ tickets = <<>>
    /\ live = <<>>
    /\ trips = <<>>
    /\ assignments = {}
    /\ users = ShiftUsers
    /\ procs = <<>>
    /\ now = 0
    /\ last = Idle

\* Requests of the shift specification: the driver registered with the
\* code of bus 1 and a driver with no link to it.
ShiftRequests == { TripRequest(Driver2, 1), TripRequest(Driver3, 1) }
LinkedRequests == { TripRequest(Driver2, 1) }

StartTripOf(R) == \E req \in R : start_trip(req.user, req.bus_id)
EndTripOf(R) == \E req \in R : end_trip(req.user, req.bus_id)
SummaryOf(R) == \E req \in R : driver_trip_summary(req.user, req.bus_id)
DashboardOf(R) == \E req \in R : driver_dashboard(req.user)
DetailsOf(R) ==
    \E req \in R, trip_id \in 1..(Len(trips) + 1) : driver_trip_details(req.user, trip_id)

ShiftNext ==
    \/ StartTripOf(ShiftRequests)
    \/ EndTripOf(LinkedRequests)
    \/ SummaryOf(LinkedRequests)
    \/ DashboardOf(LinkedRequests)
    \/ DetailsOf(LinkedRequests)
    \/ TripTicketStep
    \/ Tick

SpecShift == ShiftInit /\ [][ShiftNext]_vars

\* The assignment specification: the same tables, the clock standing; the
\* admin assigns drivers to buses, and driver d1, under whose name bus 2 is
\* operated, asks for either bus.
AssignRequests == { TripRequest(Driver1, 1), TripRequest(Driver1, 2) }

AssignStep ==
    \/ \E bus_id \in {Str1("1"), Str1("2"), Str1("9")} :
          assign_driver_bus(Admin, "POST", Str1("2"), bus_id)
    \/ \E driver_id \in { <<>>, Str1("1") } :
          assign_driver_bus(Admin, "POST", driver_id, Str1("1"))
    \/ assign_driver_bus(Driver1, "POST", Str1("2"), Str1("1"))
    \/ assign_driver_bus(Admin, "GET", Str1("2"), Str1("1"))

AssignNext ==
    \/ AssignStep
    \/ StartTripOf(AssignRequests)
    \/ EndTripOf(AssignRequests)
    \/ SummaryOf(AssignRequests)
    \/ DashboardOf(AssignRequests)
    \/ DetailsOf(AssignRequests)

SpecAssign == ShiftInit /\ [][AssignNext]_vars

(***************************************************************************)
(* C24: from a bus with no BusTrip and trip_active false, after any        *)
(* sequence of start_trip, end_trip, driver_trip_summary and               *)
(* driver_dashboard requests run one after the other, the bus has at most  *)
(* one open BusTrip, its trip_active is true exactly when it has one, and  *)
(* while it has one its trip_start_time is that trip's start_time.         *)
(***************************************************************************)
C24_TripFlagsAgree ==
    \A b \in BusIds :
        LET open == OpenTripsIn(trips, b)
        IN  /\ Cardinality(open) <= 1
            /\ buses[b].trip_active <=> open # {}
            /\ \A i \in open : buses[b].trip_start_time = Some(trips[i].start_time)

\* A second trip of bus 1 is open, the first one closed, and the dashboard
\* has shown it.
C24_Witness ==
    /\ last.op = "driver_dashboard"
    /\ last.active_trip # None
    /\ \E i, j \in TripIds : /\ i < j
                             /\ trips[i].bus = 1 /\ trips[i].end_time # None
                             /\ trips[j].bus = 1 /\ trips[j].end_time = None
                             /\ trips[j].start_time > trips[i].start_time

(***************************************************************************)
(* start_trip and end_trip, query by query, for requests of the admin      *)
(* (whom _driver_can_access_bus lets through without a query) for bus 1:   *)
(* the bus lookup; the open trip lookup; the write to the BusTrip table;   *)
(* for start_trip the new BusTrip; bus.save(update_fields=[...]).          *)
(***************************************************************************)
TripProc(op) ==
    [op |-> op, req |-> TripRequest(Admin, 1), pc |-> "bus", bus |-> None,
     open_trip |-> None]

TripBegin ==
    /\ Len(procs) < MaxProcs
    /\ \E op \in {"start_trip", "end_trip"} : procs' = Append(procs, TripProc(op))
    /\ UNCHANGED <<fareIn, fareOut, routes, stops, buses, tickets, live, now, last, trips, assignments, users>>

\* bus = Bus.objects.filter(id=bus_id).first()
TripReadBus(p) ==
    /\ procs[p].pc = "bus"
    /\ procs' = [procs EXCEPT ![p].bus = Some(buses[procs[p].req.bus_id]),
                              ![p].pc = "open"]
    /\ UNCHANGED <<fareIn, fareOut, routes, stops, buses, tickets, live, now, last, trips, assignments, users>>

\* open_trip = BusTrip.objects.filter(bus=bus, end_time__isnull=True)...first()
TripReadOpen(p) ==
    /\ procs[p].pc = "open"
    /\ procs' = [procs EXCEPT ![p].open_trip = OpenTrip(procs[p].req.bus_id),
                              ![p].pc = "close"]
    /\ UNCHANGED <<fareIn, fareOut, routes, stops, buses, tickets, live, now, last, trips, assignments, users>>

\* open_trip.save(update_fields=['end_time']) when an open trip was read.
\* end_trip that read none and read the bus with trip_active set creates
\* the closed trip of the older logic; a bus it reads that way has a
\* trip_start_time, so it saves none.
TripClose(p) ==
    LET proc == procs[p]
        bus == Get(proc.bus)
        backfill == proc.op = "end_trip" /\ proc.open_trip = None /\ bus.trip_active
    IN  /\ proc.pc = "close"
        /\ backfill => Len(trips) < MaxTrips
        /\ trips' = IF proc.open_trip # None
                    THEN [trips EXCEPT ![Get(proc.open_trip)].end_time = Some(now)]
                    ELSE IF backfill
                    THEN Append(trips, TripRow(proc.req.bus_id, Get(bus.trip_start_time),
                                               Some(now)))
                    ELSE trips
        /\ procs' = [procs EXCEPT ![p].pc = IF proc.op = "start_trip" THEN "create"
                                            ELSE "flags"]
        /\ UNCHANGED <<fareIn, fareOut, routes, stops, buses, tickets, live, now, last, assignments, users>>

\* trip = BusTrip.objects.create(bus=bus, start_time=timezone.now())
TripCreate(p) ==
    /\ procs[p].pc = "create"
    /\ Len(trips) < MaxTrips
    /\ trips' = Append(trips, TripRow(procs[p].req.bus_id, now, None))
    /\ procs' = [procs EXCEPT ![p].pc = "flags"]
    /\ UNCHANGED <<fareIn, fareOut, routes, stops, buses, tickets, live, now, last, assignments, users>>

\* bus.save(update_fields=['trip_active', 'trip_start_time']) of start_trip,
\* bus.save(update_fields=['trip_active']) of end_trip
TripFlags(p) ==
    LET proc == procs[p]
        bus_id == proc.req.bus_id
    IN  /\ proc.pc = "flags"
        /\ buses' = IF proc.op = "start_trip"
                    THEN [buses EXCEPT ![bus_id].trip_active = TRUE,
                                       ![bus_id].trip_start_time = Some(now)]
                    ELSE [buses EXCEPT ![bus_id].trip_active = FALSE]
        /\ last' = TripRedirect(proc.op, proc.req.user, bus_id, "")
        /\ procs' = [procs EXCEPT ![p].pc = "done"]
        /\ UNCHANGED <<fareIn, fareOut, routes, stops, tickets, live, now, trips, assignments, users>>

\* The fixture bus, never run; or running its first trip.
RaceInit ==
    /\ fareIn = NotANumber
    /\ fareOut = None
    /\ routes = {1, 2}
    /\ stops = FixtureStops
    /\ \/ buses = FixtureBuses /\ trips = <<>>
       \/ /\ buses = [FixtureBuses EXCEPT ![1].trip_active = TRUE,
                                          ![1].trip_start_time = Some(0)]
          /\ trips = << TripRow(1, 0, None) >>
    /\ tickets = <<>>
    /\ live = <<>>
    /\ assignments = {}
    /\ users = <<>>
    /\ procs = <<>>
    /\ now = 0
    /\ last = Idle

TripReadBusStep == \E p \in ProcIds : TripReadBus(p)
TripReadOpenStep == \E p \in ProcIds : TripReadOpen(p)
TripCloseStep == \E p \in ProcIds : TripClose(p)
TripCreateStep == \E p \in ProcIds : TripCreate(p)
TripFlagsStep == \E p \in ProcIds : TripFlags(p)

RaceNext ==
    \/ TripBegin
    \/ TripReadBusStep
    \/ TripReadOpenStep
    \/ TripCloseStep
    \/ TripCreateStep
    \/ TripFlagsStep

SpecRace == RaceInit /\ [][RaceNext]_vars

(***************************************************************************)
(* C25: when concurrent start_trip and end_trip requests for one bus have  *)
(* all completed, in whatever interleaving of their reads and writes, the  *)
(* bus has at most one open BusTrip and its trip_active is true exactly    *)
(* when it has one.                                                        *)
(***************************************************************************)
C25_TripFlagsAfterRace ==
    (AllDone /\ Len(procs) >= 2) =>
        /\ Cardinality(OpenTripsIn(trips, 1)) <= 1
        /\ buses[1].trip_active <=> OpenTripsIn(trips, 1) # {}

\* The usernames of the drivers in the users table.
DriverNames == { users[i].username : i \in {j \in DOMAIN users : users[j].role = "driver"} }

(***************************************************************************)
(* C26: after any sequence of assign_driver_bus, start_trip, end_trip,     *)
(* driver_trip_summary, driver_trip_details and driver_dashboard requests  *)
(* each driver has at most one active DriverBusAssignment (active, no      *)
(* end_time); after a successful assign_driver_bus(driver, bus) it is the  *)
(* assignment to that bus; the older linkages never add a second one.      *)
(***************************************************************************)
C26_OneActiveAssignment ==
    [][ /\ \A name \in DriverNames :
              Cardinality(ActiveAssignments(assignments', name)) <= 1
        /\ (last'.op = "assign_driver_bus" /\ last'.error = "") =>
              \A a \in ActiveAssignments(assignments', users[Get(last'.driver_id)].username) :
                  a.bus = Get(last'.bus_id) ]_vars

(***************************************************************************)
(* The quote specification: the fixture route with a sixth stop at the     *)
(* pole, the fixture bus with a base fare of 10.00 or of 25.00, and then   *)
(* any sequence of calculate_fare and bus_ticket requests.                 *)
(***************************************************************************)
PoleStop == StopRow(1, Str1("P"), 5, QuarterArc, 0)

QuoteInit ==
    /\ fareIn = NotANumber
    /\ fareOut = None
    /\ routes = {1, 2}
    /\ stops = Append(FixtureStops, PoleStop)
    /\ \E base_fare \in {FixtureBaseFare, 2500} :
          buses = [FixtureBuses EXCEPT ![1].base_fare = base_fare]
    /\ tickets = <<>>
    /\ live = <<>>
    /\ trips = <<>>
    /\ assignments = {}
    /\ users = <<>>
    /\ procs = <<>>
    /\ now = 0
    /\ last = Idle

QuoteNext == CalculateFareStep \/ BusTicketStep

SpecQuote == QuoteInit /\ [][QuoteNext]_vars

(***************************************************************************)
(* C27: for one code, source and destination and the same buses and        *)
(* stops, bus_ticket issues a ticket exactly when calculate_fare returns   *)
(* a fare, and the fare on the ticket is the fare calculate_fare returns,  *)
(* the fare of the path distance; the bus's base_fare changes neither.     *)
(***************************************************************************)
C27_TicketIffQuote ==
    [][ last'.op = "bus_ticket" =>
           LET quote == calculate_fare_outcome(last'.method, last'.otp, last'.source,
                                               last'.destination)
               issued == Len(tickets') = Len(tickets) + 1
           IN  /\ issued <=> (quote.status = 200 /\ quote.fare # None)
               /\ issued =>
                     /\ tickets'[Len(tickets')].fare = Get(quote.fare)
                     /\ Get(quote.fare) =
                           Hundredths(_fare_from_distance_m(
                                          Metres(Get(quote.distance_m))).value) ]_vars

\* The instant t lies strictly inside the interval of the trip: after its
\* start and, when it is closed, before its end.
StrictlyInside(t, trip) ==
    /\ trip.start_time < t
    /\ trip.end_time # None => t < Get(trip.end_time)

(***************************************************************************)
(* C28: the BusTrip records of a bus made by start_trip, end_trip,         *)
(* driver_trip_summary and driver_dashboard run one after the other        *)
(* follow each other in time without overlap: when a trip is created,      *)
(* every earlier trip of the bus is closed and ended at or before the new  *)
(* trip's start; every closed trip starts at or before its end; and        *)
(* driver_trip_details counts for a trip no ticket created strictly        *)
(* inside the interval of another trip of the bus.                         *)
(***************************************************************************)
C28_TripsInOrder ==
    [][ /\ Len(trips') = Len(trips) + 1 =>
              LET new == trips'[Len(trips')]
              IN  \A i \in TripIds :
                     trips'[i].bus = new.bus =>
                        /\ trips'[i].end_time # None
                        /\ Get(trips'[i].end_time) <= new.start_time
        /\ \A i \in DOMAIN trips' :
              trips'[i].end_time # None => trips'[i].start_time <= Get(trips'[i].end_time)
        /\ (last'.op = "driver_trip_details" /\ last'.status = 200) =>
              \A t \in last'.tickets :
                 \A j \in DOMAIN trips' \ {last'.trip_id} :
                    trips'[j].bus = trips'[last'.trip_id].bus =>
                       ~StrictlyInside(tickets'[t].created_at, trips'[j]) ]_vars

\* driver_trip_details has listed, for the closed first trip of a bus that
\* runs its second trip, a ticket sold strictly inside the first.
C28_Witness ==
    /\ last.op = "driver_trip_details"
    /\ last.status = 200
    /\ Len(trips) = 2
    /\ trips[1].bus = trips[2].bus
    /\ last.trip_id = 1
    /\ \E t \in last.tickets : StrictlyInside(tickets[t].created_at, trips[1])

====
